---- MODULE Spec2Model ----
(***************************************************************************)
(* Temporal index-membership store of findata:                             *)
(*   src/findata/data/database/index_db.py  (IndexDB)                      *)
(*   src/findata/data/database/schema.py    (indices, index_constituents)  *)
(*                                                                         *)
(* The database is the pair of tables (indices, rows).  A call of          *)
(* IndexDB.update_constituents takes two steps: the reads it makes before  *)
(* its write transaction, then the transaction, which either runs all its  *)
(* statements and commits, or runs some of them, raises and rolls back.    *)
(* Dates are day numbers, symbols are numbered in lexicographic order,     *)
(* NULL is 0, and datetime.now() is a logical clock.                       *)
(*                                                                         *)
(* Spec        the store used directly by one synchronous caller           *)
(* SpecUpdater the store used through IndexUpdater (index_updater.py):     *)
(*             update_from_wikipedia and update_all_configured_indices     *)
(* SpecReader  a reconcile taken statement by statement, with a query on   *)
(*             another connection running at any moment                    *)
(* SpecForward the store called with effective dates that never go back    *)
(* SpecConcurrent  the store called by several callers at once             *)
(* SpecLoader  EquityLoader.load_symbol (equity_loader.py): the retry loop  *)
(* SpecConfig  UserConfig (user_config.py): set, get, get_all and a caller *)
(*             that assigns to the dict get_all returned                   *)
(***************************************************************************)
EXTENDS Integers, Sequences, FiniteSets, TLC

\* ---- bounds of the model ----
MaxSym == 2        \* symbols 1..MaxSym
MaxDate == 3       \* calendar dates 1..MaxDate
MaxSnapLen == 2    \* rows of a snapshot DataFrame
MaxClock == 4      \* calls of the API (each one advances the clock)
NumProcs == 2      \* callers of the store
MaxRetries == 3    \* largest max_retries of a load_symbol call
MaxRequests == 4   \* downloads of one EquityLoader
BatchSize == 2     \* batch_size of the EquityLoader
MaxReaderClock == 3  \* calls of the API while a reader is watching
MaxFieldsClock == 3  \* calls of the API with varied descriptive values
MaxStamp == 3        \* timestamps a DataFrame of bars can carry
MaxTsClock == 3      \* calls of TimeSeriesDB

NULL == 0

\* the index codes callers use, and the descriptive values of a snapshot
\* row; both are only stored and compared for equality
IndexCodes == {"SP500"}
Names == {"Apple Inc."}
\* the 'source' column of a snapshot row, and the extracted_at a caller of
\* update_constituents passes when it passes one
Sources == {"wikipedia"}
ExtractedAts == {1}
\* the company names of the snapshots whose descriptive values differ from
\* one call to the next
VariedNames == {"Apple Inc.", "Apple Computer"}
\* a code that is never registered, and the codes a reconcile or a query
\* can be asked about
UnregisteredCodes == {"NOPE"}
QueryCodes == IndexCodes \cup UnregisteredCodes
\* the config files of data/index_configs (their stems) and the index_code
\* each one holds; WikipediaIndexParser.from_index_code finds the file of a
\* code at f"{index_code.lower()}.json"
ConfigFiles == {"sp500", "dow30"}
ConfigCode == [config_file \in ConfigFiles |->
                 IF config_file = "sp500" THEN "SP500" ELSE "DOW30"]
ConfiguredCodes == {ConfigCode[config_file] : config_file \in ConfigFiles}
AllCodes == QueryCodes \cup ConfiguredCodes
\* str.lower() on the index codes
Lower(index_code) ==
    CASE index_code = "SP500" -> "sp500"
      [] index_code = "DOW30" -> "dow30"
      [] index_code = "NOPE" -> "nope"
      [] OTHER -> index_code
Symbols == 1..MaxSym
Dates == 1..MaxDate
Procs == 1..NumProcs

\* a snapshot row of constituents_df, and the DataFrames a caller can pass.
\* update_constituents uses only the set of symbols of the DataFrame and, for
\* each symbol, the first row that carries it, so the DataFrames are listed
\* with their rows grouped by symbol; a symbol may occur in several rows.
SnapRows == [symbol : Symbols, company_name : Names, source : Sources]
Snapshots ==
    {df \in UNION {[1..n -> SnapRows] : n \in 0..MaxSnapLen} :
        \A k \in 1..(Len(df) - 1) : df[k].symbol <= df[k + 1].symbol}
\* DataFrames of one row per symbol, with either company name in each row
VariedRows == [symbol : Symbols, company_name : VariedNames, source : Sources]
VariedSnapshots ==
    {df \in UNION {[1..n -> VariedRows] : n \in 0..MaxSnapLen} :
        \A k \in 1..(Len(df) - 1) : df[k].symbol < df[k + 1].symbol}

VARIABLES
    indices,     \* table indices: set of [index_id, index_code, last_updated]
    rows,        \* table index_constituents: set of interval rows [index_id,
                 \*   symbol, effective_date, end_date, company_name,
                 \*   extracted_at, data_source]
    clock,       \* datetime.now(), advanced by every call of the API
    pc,          \* pc[p]: position of caller p inside update_constituents
    call,        \* call[p]: arguments and locals of p's update_constituents;
                 \*   constituents_df is never mutated, so the rows the insert
                 \*   loop reads from it (added_rows) are selected when the
                 \*   call begins; the locals are dropped when it returns
    result,      \* result[p]: what p's last call returned or raised; the
                 \*   not-registered error names the index code and is
                 \*   stamped with the time of the call that raised it
    pre,         \* pre[p]: the committed database when p's running call began
    repeat,      \* repeat[p]: p's call repeats the successful call before it
    reconDates,  \* reconDates[code]: effective dates of committed reconciles
    upd,         \* the running or last call of IndexUpdater.update_from_wikipedia:
                 \*   its position (phase), arguments, fetched DataFrame, and
                 \*   the step an IndexUpdaterError was raised in
    bulk,        \* the running or last update_all_configured_indices: the
                 \*   config files still to visit, the one being updated and
                 \*   the results dict
    opre,        \* the committed database when update_from_wikipedia began
    txn,         \* txn[p]: the uncommitted view of p's open write transaction
                 \*   and the added symbols its INSERT loop has not reached
    seen,        \* what a query on a connection of its own has just read
    last_df,     \* the constituents_df of the latest update_constituents call
                 \*   of a caller whose snapshots are being compared
    risk_factors,    \* table risk_factors: set of [risk_factor_id, symbol,
                     \*   asset_class, data_source, start_date, end_date,
                     \*   last_updated]
    timeseries_data, \* table timeseries_data: set of [risk_factor_id, date,
                     \*   close]
    tscall,      \* the arguments of the running add_timeseries_data
    tsret,       \* what the last call of TimeSeriesDB returned or raised
    loader,      \* an EquityLoader: request_count, and the position, locals
                 \*   and outcome of its running or last load_symbol
    heap,        \* the dicts of a UserConfig and of its callers, by object:
                 \*   heap[o][key] is a string or a reference to a dict
    config_copy, \* the dict the latest get_all returned (NoCopy before it)
    config_op,   \* the latest operation on the UserConfig or on config_copy
    saved_yaml   \* the YAML document _save wrote last

dbvars == <<indices, rows, clock, pc, call, result, pre, repeat, reconDates>>

uvars == <<upd, bulk, opre>>

rvars == <<txn, seen>>

fvars == <<last_df>>

tvars == <<risk_factors, timeseries_data, tscall, tsret>>

lvars == <<loader>>

cvars == <<heap, config_copy, config_op, saved_yaml>>

vars == <<indices, rows, clock, pc, call, result, pre, repeat, reconDates,
          upd, bulk, opre, txn, seen, last_df,
          risk_factors, timeseries_data, tscall, tsret,
          loader, heap, config_copy, config_op, saved_yaml>>

\* ---- the committed database ----
Committed == [indices |-> indices, rows |-> rows]

NoDb == [indices |-> {}, rows |-> {}]

\* ---- queries (pure functions of a database) ----
RowsOfIndex(db, index_code) ==
    {c \in db.rows : \E i \in db.indices :
        i.index_id = c.index_id /\ i.index_code = index_code}

get_index_id(db, index_code) ==
    IF \E i \in db.indices : i.index_code = index_code
    THEN (CHOOSE i \in db.indices : i.index_code = index_code).index_id
    ELSE NULL

\* variant: the SELECT of the current members lacks "end_date IS NULL"
get_current_constituents_all(db, index_code) ==
    RowsOfIndex(db, index_code)

get_current_constituents(db, index_code) ==
    {c \in RowsOfIndex(db, index_code) : c.end_date = NULL}

\* variant: the end date is taken as inclusive
get_historical_constituents_incl(db, index_code, as_of_date) ==
    {c \in RowsOfIndex(db, index_code) :
        /\ c.effective_date <= as_of_date
        /\ (c.end_date = NULL \/ c.end_date >= as_of_date)}

\* variant: the effective date is taken as exclusive
get_historical_constituents_strict(db, index_code, as_of_date) ==
    {c \in RowsOfIndex(db, index_code) :
        /\ c.effective_date < as_of_date
        /\ (c.end_date = NULL \/ c.end_date > as_of_date)}

get_historical_constituents(db, index_code, as_of_date) ==
    {c \in RowsOfIndex(db, index_code) :
        /\ c.effective_date <= as_of_date
        /\ (c.end_date = NULL \/ c.end_date > as_of_date)}

\* variant: the membership test takes the end date as inclusive
is_index_member_incl(db, symbol, index_code, check_date) ==
    Cardinality({c \in RowsOfIndex(db, index_code) :
        /\ c.symbol = symbol
        /\ c.effective_date <= check_date
        /\ (c.end_date = NULL \/ c.end_date >= check_date)}) > 0

is_index_member(db, symbol, index_code, check_date) ==
    Cardinality({c \in RowsOfIndex(db, index_code) :
        /\ c.symbol = symbol
        /\ c.effective_date <= check_date
        /\ (c.end_date = NULL \/ c.end_date > check_date)}) > 0

\* variant: a row closed on the day it was opened has no 'removed' record
ChangeEvents_nonempty(db, index_code, start_date, end_date) ==
    {[date |-> c.effective_date, change_type |-> "added", symbol |-> c.symbol,
      company_name |-> c.company_name, of |-> c] :
        c \in {c \in RowsOfIndex(db, index_code) :
                /\ (start_date # NULL => c.effective_date >= start_date)
                /\ (end_date # NULL => c.effective_date <= end_date)}}
    \cup
    {[date |-> c.end_date, change_type |-> "removed", symbol |-> c.symbol,
      company_name |-> c.company_name, of |-> c] :
        c \in {c \in RowsOfIndex(db, index_code) :
                /\ c.end_date # NULL
                /\ c.end_date > c.effective_date
                /\ (start_date # NULL => c.end_date >= start_date)
                /\ (end_date # NULL => c.end_date <= end_date)}}

\* the rows of the two SELECTs of get_index_changes (UNION ALL): one 'added'
\* record per row of the index, dated by its effective_date, and one
\* 'removed' record per closed row, dated by its end_date; "if start_date:"
\* and "if end_date:" add a bound only when it is given (NULL is None).
\* "of" is the stored row a record was selected from: UNION ALL keeps equal
\* records of different rows.
ChangeEvents(db, index_code, start_date, end_date) ==
    {[date |-> c.effective_date, change_type |-> "added", symbol |-> c.symbol,
      company_name |-> c.company_name, of |-> c] :
        c \in {c \in RowsOfIndex(db, index_code) :
                /\ (start_date # NULL => c.effective_date >= start_date)
                /\ (end_date # NULL => c.effective_date <= end_date)}}
    \cup
    {[date |-> c.end_date, change_type |-> "removed", symbol |-> c.symbol,
      company_name |-> c.company_name, of |-> c] :
        c \in {c \in RowsOfIndex(db, index_code) :
                /\ c.end_date # NULL
                /\ (start_date # NULL => c.end_date >= start_date)
                /\ (end_date # NULL => c.end_date <= end_date)}}

\* variant: the upper bound of the window is exclusive
ChangeEvents_excl(db, index_code, start_date, end_date) ==
    {[date |-> c.effective_date, change_type |-> "added", symbol |-> c.symbol,
      company_name |-> c.company_name, of |-> c] :
        c \in {c \in RowsOfIndex(db, index_code) :
                /\ (start_date # NULL => c.effective_date >= start_date)
                /\ (end_date # NULL => c.effective_date < end_date)}}
    \cup
    {[date |-> c.end_date, change_type |-> "removed", symbol |-> c.symbol,
      company_name |-> c.company_name, of |-> c] :
        c \in {c \in RowsOfIndex(db, index_code) :
                /\ c.end_date # NULL
                /\ (start_date # NULL => c.end_date >= start_date)
                /\ (end_date # NULL => c.end_date < end_date)}}

\* ORDER BY date DESC: the records as a list, latest date first; SQL leaves
\* the order of records of one date open, and the model fixes none
RECURSIVE OrderByDateDesc(_)
OrderByDateDesc(events) ==
    IF events = {} THEN <<>>
    ELSE LET first == CHOOSE e \in events : \A f \in events : f.date <= e.date
         IN <<first>> \o OrderByDateDesc(events \ {first})

\* variant: the query with the exclusive upper bound
get_index_changes_excl(db, index_code, start_date, end_date) ==
    OrderByDateDesc(ChangeEvents_excl(db, index_code, start_date, end_date))

\* get_index_changes: the DataFrame read_sql_query returns, row by row
get_index_changes(db, index_code, start_date, end_date) ==
    OrderByDateDesc(ChangeEvents(db, index_code, start_date, end_date))

\* what the caller of a query method gets.  None of the four methods looks
\* the index code up before its SELECT: the JOIN with indices selects no row
\* for a code without an Index row, and the method returns that result; it
\* raises (DatabaseError) only when sqlite3 does.
current(db, index_code) ==
    [status |-> "ok", value |-> get_current_constituents(db, index_code)]

as_of(db, index_code, as_of_date) ==
    [status |-> "ok",
     value |-> get_historical_constituents(db, index_code, as_of_date)]

is_member(db, symbol, index_code, check_date) ==
    [status |-> "ok", value |-> is_index_member(db, symbol, index_code, check_date)]

changes(db, index_code, start_date, end_date) ==
    [status |-> "ok",
     value |-> get_index_changes(db, index_code, start_date, end_date)]

SymbolsOf(rs) == {c.symbol : c \in rs}

\* ---- change detection of update_constituents ----
NewSymbols(df) == {df[k].symbol : k \in 1..Len(df)}

\* variant: every snapshot symbol counts as added
AddedSymbols_all(new_symbols, current_symbols) == new_symbols

AddedSymbols(new_symbols, current_symbols) == new_symbols \ current_symbols

\* variant: every current symbol counts as removed
RemovedSymbols_all(new_symbols, current_symbols) == current_symbols

RemovedSymbols(new_symbols, current_symbols) == current_symbols \ new_symbols

UnchangedSymbols(new_symbols, current_symbols) == current_symbols \cap new_symbols

\* constituents_df[constituents_df['symbol'] == symbol].iloc[0]
FirstRowOf(df, symbol) ==
    df[CHOOSE k \in 1..Len(df) :
        /\ df[k].symbol = symbol
        /\ \A j \in 1..(k - 1) : df[j].symbol # symbol]

\* line 291: constituents_df.iloc[0].get('source', 'wikipedia'), and
\* 'wikipedia' for an empty DataFrame
DataSourceOf(df) == IF Len(df) = 0 THEN "wikipedia" ELSE df[1].source

\* lines 254-255: "if extracted_at is None: extracted_at = datetime.now()"
ExtractedAtOf(extracted_at, now) ==
    IF extracted_at = NULL THEN now ELSE extracted_at

\* lines 294, 303-311: the values the INSERT of a symbol binds besides its
\* key: the descriptive fields of the symbol's first row, extracted_at and
\* data_source
BoundValues(df, symbol, extracted_at) ==
    [company_name |-> FirstRowOf(df, symbol).company_name,
     extracted_at |-> extracted_at,
     data_source |-> DataSourceOf(df)]

\* variant: descending order
RECURSIVE SortedList_desc(_)
SortedList_desc(s) ==
    IF s = {} THEN <<>>
    ELSE LET m == CHOOSE x \in s : \A y \in s : x >= y
         IN <<m>> \o SortedList_desc(s \ {m})

\* sorted(list(s))
RECURSIVE SortedList(_)
SortedList(s) ==
    IF s = {} THEN <<>>
    ELSE LET m == CHOOSE x \in s : \A y \in s : x <= y
         IN <<m>> \o SortedList(s \ {m})

Summary(c) ==
    [status |-> "ok",
     added_count |-> Cardinality(c.added_symbols),
     removed_count |-> Cardinality(c.removed_symbols),
     unchanged_count |-> Cardinality(c.unchanged_symbols),
     added_symbols |-> SortedList(c.added_symbols),
     removed_symbols |-> SortedList(c.removed_symbols)]

\* ---- statements of the write transaction ----
\* variant: the UPDATE lacks "symbol IN (...)"
CloseRemoved_allopen(db, index_id, removed_symbols, effective_date) ==
    [db EXCEPT !.rows =
        {IF c.index_id = index_id /\ c.end_date = NULL
         THEN [c EXCEPT !.end_date = effective_date]
         ELSE c : c \in db.rows}]

\* variant: the UPDATE writes the day after the effective date
CloseRemoved_dayafter(db, index_id, removed_symbols, effective_date) ==
    [db EXCEPT !.rows =
        {IF c.index_id = index_id /\ c.symbol \in removed_symbols /\ c.end_date = NULL
         THEN [c EXCEPT !.end_date = effective_date + 1]
         ELSE c : c \in db.rows}]

\* variant: the UPDATE has "index_id = ?" as its only condition
CloseRemoved_anyrow(db, index_id, removed_symbols, effective_date) ==
    [db EXCEPT !.rows =
        {IF c.index_id = index_id
         THEN [c EXCEPT !.end_date = effective_date]
         ELSE c : c \in db.rows}]

\* variant: the UPDATE writes the day before the effective date
CloseRemoved_daybefore(db, index_id, removed_symbols, effective_date) ==
    [db EXCEPT !.rows =
        {IF c.index_id = index_id /\ c.symbol \in removed_symbols /\ c.end_date = NULL
         THEN [c EXCEPT !.end_date = effective_date - 1]
         ELSE c : c \in db.rows}]

\* UPDATE index_constituents SET end_date = ? WHERE index_id = ?
\*   AND symbol IN (...) AND end_date IS NULL
CloseRemoved(db, index_id, removed_symbols, effective_date) ==
    [db EXCEPT !.rows =
        {IF c.index_id = index_id /\ c.symbol \in removed_symbols /\ c.end_date = NULL
         THEN [c EXCEPT !.end_date = effective_date]
         ELSE c : c \in db.rows}]

\* variant: the table has no UNIQUE constraint
ViolatesUnique_never(db, index_id, symbol, effective_date) == FALSE

\* UNIQUE(index_id, symbol, effective_date)
ViolatesUnique(db, index_id, symbol, effective_date) ==
    \E c \in db.rows :
        /\ c.index_id = index_id
        /\ c.symbol = symbol
        /\ c.effective_date = effective_date

\* variant: a symbol that has a closed row gets that row reopened
InsertConstituent_reopen(db, index_id, symbol, effective_date, row) ==
    IF \E c \in db.rows :
            c.index_id = index_id /\ c.symbol = symbol /\ c.end_date # NULL
    THEN [db EXCEPT !.rows =
            {IF c.index_id = index_id /\ c.symbol = symbol /\ c.end_date # NULL
             THEN [c EXCEPT !.end_date = NULL] ELSE c : c \in db.rows}]
    ELSE [db EXCEPT !.rows = @ \cup
            {[index_id |-> index_id, symbol |-> symbol,
              effective_date |-> effective_date, end_date |-> NULL,
              company_name |-> row.company_name,
              extracted_at |-> row.extracted_at,
              data_source |-> row.data_source]}]

\* INSERT INTO index_constituents (...) VALUES (?, ?, ?, NULL, ...)
InsertConstituent(db, index_id, symbol, effective_date, row) ==
    [db EXCEPT !.rows = @ \cup
        {[index_id |-> index_id, symbol |-> symbol,
          effective_date |-> effective_date, end_date |-> NULL,
          company_name |-> row.company_name,
          extracted_at |-> row.extracted_at,
          data_source |-> row.data_source]}]

\* variant: the transaction has no UPDATE of indices
BumpLastUpdated_none(db, index_id, now) == db

\* variant: the UPDATE of indices lacks "WHERE index_id = ?"
BumpLastUpdated_all(db, index_id, now) ==
    [db EXCEPT !.indices = {[i EXCEPT !.last_updated = now] : i \in db.indices}]

\* UPDATE indices SET last_updated = ? WHERE index_id = ?
BumpLastUpdated(db, index_id, now) ==
    [db EXCEPT !.indices =
        {IF i.index_id = index_id THEN [i EXCEPT !.last_updated = now] ELSE i
         : i \in db.indices}]

\* variant: the transaction also re-dates the open rows of the unchanged
\* symbols to the effective date of the call
ClosedOut_refresh(db, c) ==
    [db EXCEPT !.rows =
        {IF r.index_id = c.index_id /\ r.end_date = NULL
         THEN (IF r.symbol \in c.removed_symbols
               THEN [r EXCEPT !.end_date = c.effective_date]
               ELSE [r EXCEPT !.effective_date = c.effective_date])
         ELSE r : r \in db.rows}]

\* lines 281-288: "if removed_symbols:" guards the UPDATE
ClosedOut(db, c) ==
    IF c.removed_symbols # {}
    THEN CloseRemoved(db, c.index_id, c.removed_symbols, c.effective_date)
    ELSE db

\* lines 293-312: the INSERTs of the loop "for symbol in added_symbols" for
\* the symbols it has reached
RECURSIVE InsertAll(_, _, _)
InsertAll(db, c, symbols) ==
    IF symbols = {} THEN db
    ELSE LET symbol == CHOOSE x \in symbols : TRUE
         IN InsertAll(InsertConstituent(db, c.index_id, symbol, c.effective_date,
                                        c.added_rows[symbol]),
                      c, symbols \ {symbol})

\* the added symbols whose INSERT raises sqlite3.IntegrityError
Conflicts(db, c) ==
    {symbol \in c.added_symbols :
        ViolatesUnique(db, c.index_id, symbol, c.effective_date)}

\* the uncommitted states of the transaction in which a statement can
\* raise: nothing written yet, or the removed rows closed and the added
\* symbols reached so far inserted (a set is iterated in any order), or
\* everything written and last_updated bumped
PartialViews(db, c, now) ==
    {db}
    \cup {InsertAll(ClosedOut(db, c), c, done) :
            done \in SUBSET (c.added_symbols \ Conflicts(db, c))}
    \cup (IF Conflicts(db, c) = {}
          THEN {BumpLastUpdated(InsertAll(ClosedOut(db, c), c, c.added_symbols),
                                c.index_id, now)}
          ELSE {})

\* the uncommitted states in which the INSERT of a conflicting symbol runs
ConflictViews(db, c) ==
    {InsertAll(ClosedOut(db, c), c, done) :
        done \in SUBSET (c.added_symbols \ Conflicts(db, c))}

\* variant: the statements executed so far stay in the database
RolledBack_partial(db, view) == view

\* the connection's context manager rolls back when the block raises
RolledBack(db, view) == db

\* ---- EquityLoader (equity_loader.py): state of a loader ----
NoLoad ==
    [phase |-> "idle", max_retries |-> 0, attempt |-> 0, tries |-> <<>>,
     backoffs |-> <<>>, pauses |-> <<>>, last_error |-> "", outcome |-> "none",
     request_count |-> 0]

\* ---- UserConfig (user_config.py): the dicts of a configuration ----
\* A Python dict is an object: heap maps the object to its items, and an
\* item is a string or a reference to another dict.  Two dicts that hold
\* a reference to the same object share it.
TopKeys == {"test", "database"}

NestedKeys == {"path"}

Strings == {"value", "modified"}

Str(s) == [kind |-> "str", of |-> s]

Ref(o) == [kind |-> "dict", of |-> o]

EmptyDict == [k \in {} |-> Str("")]

\* the value of an item, references followed: what == compares and what
\* yaml.safe_dump writes.  It is the set of the paths below the item, each
\* with the string or the dict ("{}") found there.
RECURSIVE Value(_, _, _)
Value(h, v, path) ==
    IF v.kind = "str"
    THEN {<<path, v.of>>}
    ELSE {<<path, "{}">>}
         \cup UNION {Value(h, h[v.of][k], Append(path, k)) : k \in DOMAIN h[v.of]}

\* line 32, lines 40-42: the config file does not exist: _config = {}
NoConfig == [o \in {"_config"} |-> EmptyDict]

\* get_all was not called yet
NoCopy == ""

\* ---- initial state: the schema is created, both tables are empty ----
NoCall ==
    [index_code |-> "", index_id |-> NULL, added_rows |-> <<>>,
     effective_date |-> NULL, new_symbols |-> {}, current_symbols |-> {},
     added_symbols |-> {},
     removed_symbols |-> {}, unchanged_symbols |-> {}]

NoResult == [status |-> "none"]

\* what is remembered of a call that returned its summary: its arguments
Finished(c) ==
    [NoCall EXCEPT !.index_code = c.index_code,
                   !.new_symbols = c.new_symbols,
                   !.effective_date = c.effective_date]

NoUpd ==
    [phase |-> "IDLE", index_code |-> "", effective_date |-> NULL,
     constituents_df |-> <<>>, index_id |-> NULL, error |-> "none"]

NoBulk == [state |-> "idle", todo |-> {}, current |-> "", results |-> <<>>]

NoTxn == [view |-> NoDb, left |-> {}]

NoSeen == [status |-> "none"]

NoTsCall == [risk_factor_id |-> NULL, data |-> <<>>]

NoTsRet == [op |-> "none", status |-> "none"]

Init ==
    /\ loader = NoLoad
    /\ heap = NoConfig
    /\ config_copy = NoCopy
    /\ config_op = "none"
    /\ saved_yaml = {}
    /\ risk_factors = {}
    /\ timeseries_data = {}
    /\ tscall = NoTsCall
    /\ tsret = NoTsRet
    /\ last_df = <<>>
    /\ txn = [p \in Procs |-> NoTxn]
    /\ seen = NoSeen
    /\ upd = NoUpd
    /\ bulk = NoBulk
    /\ opre = NoDb
    /\ indices = {}
    /\ rows = {}
    /\ clock = 0
    /\ pc = [p \in Procs |-> "idle"]
    /\ call = [p \in Procs |-> NoCall]
    /\ result = [p \in Procs |-> NoResult]
    /\ pre = [p \in Procs |-> NoDb]
    /\ repeat = [p \in Procs |-> FALSE]
    /\ reconDates = [code \in AllCodes |-> {}]

AllIdle == \A q \in Procs : pc[q] = "idle"

\* the one caller of the single-process program
SeqProcs == {p \in Procs : \A q \in Procs : p <= q}

\* ---- IndexDB.register_index ----
\* the index_id register_index returns: result[0] of the SELECT by index_code
\* when a row exists, else cursor.lastrowid of the INSERT (AUTOINCREMENT, and
\* no row of indices is ever deleted)
registered_id(db, index_code) ==
    IF \E i \in db.indices : i.index_code = index_code
    THEN (CHOOSE i \in db.indices : i.index_code = index_code).index_id
    ELSE Cardinality(db.indices) + 1

\* variant: the INSERT runs without the SELECT before it
register_index_insert(index_code) ==
    /\ AllIdle
    /\ clock < MaxClock
    /\ clock' = clock + 1
    /\ indices' = indices \cup
            {[index_id |-> Cardinality(indices) + 1,
              index_code |-> index_code, last_updated |-> clock']}
    /\ UNCHANGED <<rows, pc, call, result, pre, repeat, reconDates>>

\* lines 81-114: SELECT by index_code, UPDATE or INSERT, commit
register_index(index_code) ==
    /\ AllIdle
    /\ clock < MaxClock
    /\ clock' = clock + 1
    /\ IF \E i \in indices : i.index_code = index_code
       THEN indices' = {IF i.index_code = index_code
                        THEN [i EXCEPT !.last_updated = clock'] ELSE i
                        : i \in indices}
       ELSE indices' = indices \cup
                {[index_id |-> registered_id(Committed, index_code),
                  index_code |-> index_code, last_updated |-> NULL]}
    /\ UNCHANGED <<rows, pc, call, result, pre, repeat, reconDates>>

\* ---- IndexDB.update_constituents ----
\* the call about to begin has the index, the snapshot symbols and the
\* effective date of the call that just returned
Repeats(p, index_code, constituents_df, effective_date) ==
    /\ result[p].status = "ok"
    /\ call[p].index_code = index_code
    /\ call[p].new_symbols = NewSymbols(constituents_df)
    /\ call[p].effective_date = effective_date

\* variant: the call registers the missing index before it raises
UpdateNotRegistered_autoreg(p, index_code) ==
    /\ pc[p] = "idle"
    /\ clock < MaxClock
    /\ get_index_id(Committed, index_code) = NULL
    /\ clock' = clock + 1
    /\ indices' = indices \cup
            {[index_id |-> Cardinality(indices) + 1,
              index_code |-> index_code, last_updated |-> NULL]}
    /\ repeat' = [repeat EXCEPT ![p] = FALSE]
    /\ pre' = [pre EXCEPT ![p] = NoDb]
    /\ call' = [call EXCEPT ![p] = NoCall]
    /\ result' = [result EXCEPT ![p] =
            [status |-> "not_registered", index_code |-> index_code,
             at |-> clock']]
    /\ UNCHANGED <<rows, pc, reconDates>>

\* lines 259-262: the index is not registered: DatabaseError("Index ... not
\* registered") before constituents_df or the database is read, whatever
\* snapshot and effective date the caller passed
UpdateNotRegistered(p, index_code) ==
    /\ pc[p] = "idle"
    /\ clock < MaxClock
    /\ get_index_id(Committed, index_code) = NULL
    /\ clock' = clock + 1
    /\ repeat' = [repeat EXCEPT ![p] = FALSE]
    /\ pre' = [pre EXCEPT ![p] = NoDb]
    /\ call' = [call EXCEPT ![p] = NoCall]
    /\ result' = [result EXCEPT ![p] =
            [status |-> "not_registered", index_code |-> index_code,
             at |-> clock']]
    /\ UNCHANGED <<indices, rows, pc, reconDates>>

\* lines 254-274: resolve the id, read the open rows, classify the symbols
UpdateBegin(p, index_code, constituents_df, extracted_at, effective_date) ==
    /\ pc[p] = "idle"
    /\ clock < MaxClock
    /\ get_index_id(Committed, index_code) # NULL
    /\ clock' = clock + 1
    /\ repeat' = [repeat EXCEPT ![p] =
            Repeats(p, index_code, constituents_df, effective_date)]
    /\ pre' = [pre EXCEPT ![p] = Committed]
    /\ LET current_symbols ==
               SymbolsOf(get_current_constituents(Committed, index_code))
           new_symbols == NewSymbols(constituents_df)
       IN call' = [call EXCEPT ![p] =
            [index_code |-> index_code,
             index_id |-> get_index_id(Committed, index_code),
             added_rows |-> [symbol \in AddedSymbols(new_symbols, current_symbols)
                                |-> BoundValues(constituents_df, symbol,
                                        ExtractedAtOf(extracted_at, clock'))],
             effective_date |-> effective_date,
             new_symbols |-> new_symbols,
             current_symbols |-> current_symbols,
             added_symbols |-> AddedSymbols(new_symbols, current_symbols),
             removed_symbols |-> RemovedSymbols(new_symbols, current_symbols),
             unchanged_symbols |-> UnchangedSymbols(new_symbols, current_symbols)]]
    /\ result' = [result EXCEPT ![p] = [status |-> "running"]]
    /\ pc' = [pc EXCEPT ![p] = "txn"]
    /\ UNCHANGED <<indices, rows, reconDates>>

\* the failure path: the transaction is rolled back from the uncommitted
\* state it reached, then DatabaseError is raised
Raise(p, view, cause) ==
    /\ indices' = RolledBack(Committed, view).indices
    /\ rows' = RolledBack(Committed, view).rows
    /\ result' = [result EXCEPT ![p] =
            [status |-> "database_error", wrote |-> view # Committed,
             cause |-> cause]]
    /\ pc' = [pc EXCEPT ![p] = "idle"]
    /\ call' = [call EXCEPT ![p] = NoCall]
    /\ pre' = [pre EXCEPT ![p] = NoDb]
    /\ UNCHANGED <<clock, repeat, reconDates>>

\* lines 276-333: the transaction runs to its end: close out the removed
\* constituents, insert the added ones, bump last_updated, commit, and
\* return the summary
TxnCommit(p) ==
    /\ pc[p] = "txn"
    /\ Conflicts(Committed, call[p]) = {}
    /\ LET view == BumpLastUpdated(
                        InsertAll(ClosedOut(Committed, call[p]), call[p],
                                  call[p].added_symbols),
                        call[p].index_id, clock)
       IN /\ indices' = view.indices
          /\ rows' = view.rows
    /\ result' = [result EXCEPT ![p] = Summary(call[p])]
    /\ pc' = [pc EXCEPT ![p] = "idle"]
    /\ reconDates' = [reconDates EXCEPT ![call[p].index_code] =
                        @ \cup {call[p].effective_date}]
    /\ call' = [call EXCEPT ![p] = Finished(call[p])]
    /\ pre' = [pre EXCEPT ![p] = NoDb]
    /\ UNCHANGED <<clock, repeat>>

\* lines 296-312, 324-325: an INSERT raises sqlite3.IntegrityError on the
\* UNIQUE constraint, after the statements before it were executed
TxnInsertConflict(p) ==
    /\ pc[p] = "txn"
    /\ Conflicts(Committed, call[p]) # {}
    /\ \E view \in ConflictViews(Committed, call[p]) :
        Raise(p, view, "IntegrityError")

\* lines 276-325: a statement of the transaction, or the commit, raises
\* sqlite3.Error (storage failure)
TxnError(p) ==
    /\ pc[p] = "txn"
    /\ \E view \in PartialViews(Committed, call[p], clock) :
        Raise(p, view, "OperationalError")

\* lines 276-325: the transaction fails in either way: a storage failure
\* in any statement, or sqlite3.IntegrityError in the INSERT of a
\* conflicting symbol
Failures(db, c, now) ==
    {[view |-> view, cause |-> "OperationalError"] :
        view \in PartialViews(db, c, now)}
    \cup {[view |-> view, cause |-> "IntegrityError"] :
        view \in (IF Conflicts(db, c) # {} THEN ConflictViews(db, c) ELSE {})}

TxnFail(p) ==
    /\ pc[p] = "txn"
    /\ \E failure \in Failures(Committed, call[p], clock) :
        Raise(p, failure.view, failure.cause)

\* ---- the single-process, synchronous program ----
Next ==
    \/ \E index_code \in IndexCodes :
        register_index(index_code) /\ UNCHANGED <<uvars, rvars, fvars, tvars, lvars, cvars>>
    \/ \E p \in SeqProcs, index_code \in QueryCodes :
        AllIdle /\ UpdateNotRegistered(p, index_code) /\ UNCHANGED <<uvars, rvars, fvars, tvars, lvars, cvars>>
    \/ \E p \in SeqProcs, index_code \in QueryCodes, df \in Snapshots,
          at \in ExtractedAts, d \in Dates :
        AllIdle /\ UpdateBegin(p, index_code, df, at, d) /\ UNCHANGED <<uvars, rvars, fvars, tvars, lvars, cvars>>
    \/ \E p \in SeqProcs : TxnCommit(p) /\ UNCHANGED <<uvars, rvars, fvars, tvars, lvars, cvars>>
    \/ \E p \in SeqProcs : TxnInsertConflict(p) /\ UNCHANGED <<uvars, rvars, fvars, tvars, lvars, cvars>>
    \/ \E p \in SeqProcs : TxnError(p) /\ UNCHANGED <<uvars, rvars, fvars, tvars, lvars, cvars>>

Spec == Init /\ [][Next]_vars

\* ---- update_constituents called with effective dates that never go back ----
\* the effective_date of a call is not earlier than that of any committed
\* reconcile of the index (a caller that leaves the default, date.today(),
\* is such a caller)
NotBackdated(index_code, effective_date) ==
    \A earlier \in reconDates[index_code] : earlier <= effective_date

NextForward ==
    \/ \E index_code \in IndexCodes :
        register_index(index_code) /\ UNCHANGED <<uvars, rvars, fvars, tvars, lvars, cvars>>
    \/ \E p \in SeqProcs, index_code \in QueryCodes :
        /\ AllIdle
        /\ UpdateNotRegistered(p, index_code)
        /\ UNCHANGED <<uvars, rvars, fvars, tvars, lvars, cvars>>
    \/ \E p \in SeqProcs, index_code \in QueryCodes, df \in Snapshots,
          at \in ExtractedAts, d \in Dates :
        /\ AllIdle
        /\ NotBackdated(index_code, d)
        /\ UpdateBegin(p, index_code, df, at, d)
        /\ UNCHANGED <<uvars, rvars, fvars, tvars, lvars, cvars>>
    \/ \E p \in SeqProcs : TxnCommit(p) /\ UNCHANGED <<uvars, rvars, fvars, tvars, lvars, cvars>>
    \/ \E p \in SeqProcs : TxnFail(p) /\ UNCHANGED <<uvars, rvars, fvars, tvars, lvars, cvars>>

SpecForward == Init /\ [][NextForward]_vars

\* ---- update_constituents called by several callers at once ----
\* Each call opens its own connection (sqlite3.connect, line 277) after it
\* has read the open rows with get_current_constituents (line 265), so a
\* second caller can read, and commit, between the read and the write
\* transaction of the first.  SQLite serialises the write transactions
\* themselves.
NextConcurrent ==
    \/ \E index_code \in IndexCodes :
        register_index(index_code) /\ UNCHANGED <<uvars, rvars, fvars, tvars, lvars, cvars>>
    \/ \E p \in Procs, index_code \in IndexCodes, df \in Snapshots,
          at \in ExtractedAts, d \in Dates :
        /\ UpdateBegin(p, index_code, df, at, d)
        /\ UNCHANGED <<uvars, rvars, fvars, tvars, lvars, cvars>>
    \/ \E p \in Procs : TxnCommit(p) /\ UNCHANGED <<uvars, rvars, fvars, tvars, lvars, cvars>>
    \/ \E p \in Procs : TxnFail(p) /\ UNCHANGED <<uvars, rvars, fvars, tvars, lvars, cvars>>

SpecConcurrent == Init /\ [][NextConcurrent]_vars

\* ---- update_constituents with snapshots whose descriptive values vary ----
\* a caller that registers the index and reconciles snapshots that name a
\* company differently from one call to the next, with the default
\* extracted_at (now)
NextFields ==
    \/ \E index_code \in IndexCodes :
        /\ clock < MaxFieldsClock
        /\ register_index(index_code)
        /\ UNCHANGED <<uvars, rvars, fvars, tvars, lvars, cvars>>
    \/ \E p \in SeqProcs, index_code \in IndexCodes, df \in VariedSnapshots,
          d \in Dates :
        /\ clock < MaxFieldsClock
        /\ AllIdle
        /\ UpdateBegin(p, index_code, df, NULL, d)
        /\ last_df' = df
        /\ UNCHANGED <<uvars, rvars, tvars, lvars, cvars>>
    \/ \E p \in SeqProcs : TxnCommit(p) /\ UNCHANGED <<uvars, rvars, fvars, tvars, lvars, cvars>>
    \/ \E p \in SeqProcs : TxnFail(p) /\ UNCHANGED <<uvars, rvars, fvars, tvars, lvars, cvars>>

SpecFields == Init /\ [][NextFields]_vars

\* ---- IndexUpdater (index_updater.py) ----
\* update_from_wikipedia is one try block of four steps: load the parser
\* config and fetch the constituents, register the index, reconcile, build
\* the summary.  upd.phase is the step the call is in: FETCHING (lines
\* 79-90), REGISTERING (92-105), RECONCILING (107-122), DONE (it returned
\* its summary), FAILED (it raised IndexUpdaterError).
UpdOver == upd.phase \in {"IDLE", "DONE", "FAILED"}

\* the call has returned or raised: its locals are gone
UpdEnded(phase, error) ==
    [upd EXCEPT !.phase = phase, !.error = error,
                !.constituents_df = <<>>, !.effective_date = NULL,
                !.index_id = NULL]

\* variant: the index is registered before the fetch
update_from_wikipedia_regfirst(index_code, effective_date) ==
    /\ UpdOver
    /\ AllIdle
    /\ clock + 1 < MaxClock
    /\ upd' = [phase |-> "FETCHING", index_code |-> index_code,
               effective_date |-> effective_date,
               constituents_df |-> <<>>, index_id |-> NULL, error |-> "none"]
    /\ opre' = Committed
    /\ register_index(index_code)

\* line 77: the call begins (effective_date = None is date.today() inside
\* update_constituents)
update_from_wikipedia(index_code, effective_date) ==
    /\ UpdOver
    /\ AllIdle
    /\ clock + 1 < MaxClock
    /\ upd' = [phase |-> "FETCHING", index_code |-> index_code,
               effective_date |-> effective_date,
               constituents_df |-> <<>>, index_id |-> NULL, error |-> "none"]
    /\ opre' = Committed
    /\ UNCHANGED dbvars

\* lines 79-90: the config file of the code exists, the page is fetched and
\* parsed
UpdFetch(df) ==
    /\ upd.phase = "FETCHING"
    /\ Lower(upd.index_code) \in ConfigFiles
    /\ upd' = [upd EXCEPT !.phase = "REGISTERING", !.constituents_df = df]
    /\ UNCHANGED <<dbvars, opre>>

\* variant: the fetch error is recorded and the call goes on
UpdFetchFail_goon ==
    /\ upd.phase = "FETCHING"
    /\ upd' = [upd EXCEPT !.phase = "REGISTERING", !.error = "FETCHING"]
    /\ UNCHANGED <<dbvars, opre>>

\* lines 82-83, 89-90: WikipediaIndexParserError (no config file, invalid
\* JSON, the request or the parse failed) is re-raised as IndexUpdaterError
UpdFetchFail ==
    /\ upd.phase = "FETCHING"
    /\ upd' = UpdEnded("FAILED", "FETCHING")
    /\ UNCHANGED <<dbvars, opre>>

\* lines 93-103: register_index inserts or updates the Index row, commits
\* and returns the id of the row
UpdRegister ==
    /\ upd.phase = "REGISTERING"
    /\ register_index(upd.index_code)
    /\ upd' = [upd EXCEPT !.phase = "RECONCILING",
                          !.index_id = registered_id(Committed, upd.index_code)]
    /\ UNCHANGED opre

\* variant: the statement of a failed register_index stays in the database
UpdRegisterFail_written ==
    /\ upd.phase = "REGISTERING"
    /\ register_index(upd.index_code)
    /\ upd' = UpdEnded("FAILED", "REGISTERING")
    /\ UNCHANGED opre

\* lines 104-105: register_index raises DatabaseError; its connection's
\* context manager has rolled its statement back
UpdRegisterFail ==
    /\ upd.phase = "REGISTERING"
    /\ upd' = UpdEnded("FAILED", "REGISTERING")
    /\ UNCHANGED <<dbvars, opre>>

\* lines 109-114: update_constituents is called with extracted_at =
\* datetime.now() and makes its reads
UpdReconcileBegin(p) ==
    /\ upd.phase = "RECONCILING"
    /\ UpdateBegin(p, upd.index_code, upd.constituents_df, clock + 1,
                   upd.effective_date)
    /\ UNCHANGED uvars

\* lines 115-148: update_constituents returned; the summary is built
UpdReconcileDone(p) ==
    /\ upd.phase = "RECONCILING"
    /\ TxnCommit(p)
    /\ upd' = UpdEnded("DONE", "none")
    /\ UNCHANGED <<bulk, opre>>

\* lines 121-122: update_constituents raised (a statement or the commit
\* failed, or an INSERT violated UNIQUE)
UpdReconcileFail(p) ==
    /\ upd.phase = "RECONCILING"
    /\ TxnFail(p)
    /\ upd' = UpdEnded("FAILED", "RECONCILING")
    /\ UNCHANGED <<bulk, opre>>

\* ---- IndexUpdater.update_all_configured_indices ----
\* lines 169-178: the config files are listed
BulkStart ==
    /\ bulk.state # "running"
    /\ UpdOver
    /\ AllIdle
    /\ clock + 1 < MaxClock
    /\ bulk' = [state |-> "running", todo |-> ConfigFiles, current |-> "",
                results |-> <<>>]
    /\ UNCHANGED <<dbvars, upd, opre>>

\* lines 179-190: the next config file (in the order glob lists them) is
\* read and update_from_wikipedia is called for its index_code, with the
\* default effective date
BulkNext(config_file, today) ==
    /\ bulk.state = "running"
    /\ bulk.current = ""
    /\ config_file \in bulk.todo
    /\ update_from_wikipedia(ConfigCode[config_file], today)
    /\ bulk' = [bulk EXCEPT !.todo = @ \ {config_file}, !.current = config_file]

\* lines 190-198: the summary is stored under the index_code, an exception
\* under the stem of the config file
BulkCapture ==
    /\ bulk.state = "running"
    /\ bulk.current # ""
    /\ upd.phase \in {"DONE", "FAILED"}
    /\ bulk' = [bulk EXCEPT
            !.current = "",
            !.results =
                IF upd.phase = "DONE"
                THEN (upd.index_code :> [status |-> "ok"]) @@ @
                ELSE (bulk.current :> [status |-> "failed"]) @@ @]
    /\ UNCHANGED <<dbvars, upd, opre>>

\* line 200: the loop is over, results is returned
BulkReturn ==
    /\ bulk.state = "running"
    /\ bulk.current = ""
    /\ bulk.todo = {}
    /\ bulk' = [bulk EXCEPT !.state = "returned"]
    /\ UNCHANGED <<dbvars, upd, opre>>

\* the updater as the one user of the store
NextUpdater ==
    \/ \E index_code \in ConfiguredCodes, d \in Dates :
        /\ bulk.state # "running"
        /\ update_from_wikipedia(index_code, d)
        /\ UNCHANGED <<bulk, rvars, fvars, tvars, lvars, cvars>>
    \/ \E df \in Snapshots : UpdFetch(df) /\ UNCHANGED <<bulk, rvars, fvars, tvars, lvars, cvars>>
    \/ UpdFetchFail /\ UNCHANGED <<bulk, rvars, fvars, tvars, lvars, cvars>>
    \/ UpdRegister /\ UNCHANGED <<bulk, rvars, fvars, tvars, lvars, cvars>>
    \/ UpdRegisterFail /\ UNCHANGED <<bulk, rvars, fvars, tvars, lvars, cvars>>
    \/ \E p \in SeqProcs : UpdReconcileBegin(p) /\ UNCHANGED <<rvars, fvars, tvars, lvars, cvars>>
    \/ \E p \in SeqProcs : UpdReconcileDone(p) /\ UNCHANGED <<rvars, fvars, tvars, lvars, cvars>>
    \/ \E p \in SeqProcs : UpdReconcileFail(p) /\ UNCHANGED <<rvars, fvars, tvars, lvars, cvars>>
    \/ BulkStart /\ UNCHANGED <<rvars, fvars, tvars, lvars, cvars>>
    \/ \E config_file \in ConfigFiles, today \in Dates :
        BulkNext(config_file, today) /\ UNCHANGED <<rvars, fvars, tvars, lvars, cvars>>
    \/ BulkCapture /\ UNCHANGED <<rvars, fvars, tvars, lvars, cvars>>
    \/ BulkReturn /\ UNCHANGED <<rvars, fvars, tvars, lvars, cvars>>

SpecUpdater == Init /\ [][NextUpdater]_vars

\* ---- a reconcile and a concurrent reader ----
\* The write transaction of update_constituents statement by statement, on
\* the connection it opens at line 277: the statements build an uncommitted
\* view that conn.commit() makes the committed database.
InTxn(p) == pc[p] \in {"inserting", "committing"}

\* lines 277-288: connect, and the UPDATE that closes the removed symbols
TxnStmtClose(p) ==
    /\ pc[p] = "txn"
    /\ txn' = [txn EXCEPT ![p] =
            [view |-> ClosedOut(Committed, call[p]),
             left |-> call[p].added_symbols]]
    /\ pc' = [pc EXCEPT ![p] = "inserting"]
    /\ UNCHANGED <<indices, rows, clock, call, result, pre, repeat, reconDates>>

\* lines 293-312: the INSERT of the next added symbol (a set is iterated in
\* any order); it raises sqlite3.IntegrityError when it violates UNIQUE
TxnStmtInsert(p, symbol) ==
    /\ pc[p] = "inserting"
    /\ symbol \in txn[p].left
    /\ IF ViolatesUnique(txn[p].view, call[p].index_id, symbol,
                         call[p].effective_date)
       THEN /\ Raise(p, txn[p].view, "IntegrityError")
            /\ txn' = [txn EXCEPT ![p] = NoTxn]
       ELSE /\ txn' = [txn EXCEPT ![p] =
                    [view |-> InsertConstituent(txn[p].view, call[p].index_id,
                                  symbol, call[p].effective_date,
                                  call[p].added_rows[symbol]),
                     left |-> txn[p].left \ {symbol}]]
            /\ UNCHANGED <<indices, rows, clock, pc, call, result, pre,
                           repeat, reconDates>>

\* lines 317-320: the loop is over; UPDATE indices SET last_updated
TxnStmtBump(p) ==
    /\ pc[p] = "inserting"
    /\ txn[p].left = {}
    /\ txn' = [txn EXCEPT ![p].view =
            BumpLastUpdated(txn[p].view, call[p].index_id, clock)]
    /\ pc' = [pc EXCEPT ![p] = "committing"]
    /\ UNCHANGED <<indices, rows, clock, call, result, pre, repeat, reconDates>>

\* lines 322-333: conn.commit(), and the summary is returned
TxnStmtCommit(p) ==
    /\ pc[p] = "committing"
    /\ indices' = txn[p].view.indices
    /\ rows' = txn[p].view.rows
    /\ txn' = [txn EXCEPT ![p] = NoTxn]
    /\ result' = [result EXCEPT ![p] = Summary(call[p])]
    /\ pc' = [pc EXCEPT ![p] = "idle"]
    /\ reconDates' = [reconDates EXCEPT ![call[p].index_code] =
                        @ \cup {call[p].effective_date}]
    /\ call' = [call EXCEPT ![p] = Finished(call[p])]
    /\ pre' = [pre EXCEPT ![p] = NoDb]
    /\ UNCHANGED <<clock, repeat>>

\* lines 324-325: a statement or the commit raises sqlite3.Error
TxnStmtError(p) ==
    /\ InTxn(p)
    /\ Raise(p, txn[p].view, "OperationalError")
    /\ txn' = [txn EXCEPT ![p] = NoTxn]

\* variant: the query sees the statements of an open transaction
Visible_dirty(db, views) ==
    IF views # {} THEN CHOOSE view \in views : TRUE ELSE db

\* every method opens a connection of its own (sqlite3.connect), and the
\* statements of update_constituents stay in its transaction until
\* conn.commit(): a query on another connection reads the committed database
Visible(db, views) == db

\* a query (one SELECT) run by another caller at any moment
Read ==
    /\ seen.status = "none"
    /\ seen' = [status |-> "read",
                db |-> Visible(Committed, {txn[p].view : p \in {q \in Procs : InTxn(q)}})]
    /\ UNCHANGED <<dbvars, uvars, txn>>

\* the reader has its result before the writer's next step
NextReader ==
    \/ \E index_code \in IndexCodes :
        /\ clock < MaxReaderClock
        /\ register_index(index_code)
        /\ seen' = NoSeen
        /\ UNCHANGED <<uvars, txn, fvars, tvars, lvars, cvars>>
    \/ \E p \in SeqProcs, index_code \in IndexCodes, df \in Snapshots,
          at \in ExtractedAts, d \in Dates :
        /\ clock < MaxReaderClock
        /\ AllIdle
        /\ UpdateBegin(p, index_code, df, at, d)
        /\ seen' = NoSeen
        /\ UNCHANGED <<uvars, txn, fvars, tvars, lvars, cvars>>
    \/ \E p \in SeqProcs : TxnStmtClose(p) /\ seen' = NoSeen /\ UNCHANGED <<uvars, fvars, tvars, lvars, cvars>>
    \/ \E p \in SeqProcs : \E symbol \in txn[p].left :
        TxnStmtInsert(p, symbol) /\ seen' = NoSeen /\ UNCHANGED <<uvars, fvars, tvars, lvars, cvars>>
    \/ \E p \in SeqProcs : TxnStmtBump(p) /\ seen' = NoSeen /\ UNCHANGED <<uvars, fvars, tvars, lvars, cvars>>
    \/ \E p \in SeqProcs : TxnStmtCommit(p) /\ seen' = NoSeen /\ UNCHANGED <<uvars, fvars, tvars, lvars, cvars>>
    \/ \E p \in SeqProcs : TxnStmtError(p) /\ seen' = NoSeen /\ UNCHANGED <<uvars, fvars, tvars, lvars, cvars>>
    \/ Read /\ UNCHANGED <<fvars, tvars, lvars, cvars>>

SpecReader == Init /\ [][NextReader]_vars

\* ---- TimeSeriesDB (timeseries_db.py) ----
\* the arguments callers pass to add_risk_factor: "" is the empty string
TsSymbols == {"AAPL", ""}
AssetClasses == {"equity", "Equity", "bond"}
DataSources == {"yfinance"}
Frequencies == {"daily", "yearly"}

VALID_ASSET_CLASSES == {"equity", "fx", "rates", "commodity", "credit", "crypto"}

VALID_FREQUENCIES == {"tick", "minute", "hourly", "daily", "weekly", "monthly"}

\* str.lower() on the arguments above
LowerCase(s) == IF s = "Equity" THEN "equity" ELSE s

\* the rows of the DataFrames callers pass to add_timeseries_data: a
\* timestamp and a close price, which is a number or NaN; a DataFrame
\* without a close column has rows with no close at all.  The rows come in
\* the order of their timestamps.
Stamps == 1..MaxStamp
InputCloses == {"100", "101"}
NaN == "nan"
NoColumn == "no close column"
BarRows == [timestamp : Stamps, close : InputCloses \cup {NaN}]
OpenOnlyRows == [timestamp : Stamps, close : {NoColumn}]
Increasing(df) == \A k \in 1..(Len(df) - 1) : df[k].timestamp < df[k + 1].timestamp
Frames ==
    {df \in UNION {[1..n -> BarRows] : n \in 0..MaxStamp} : Increasing(df)}
    \cup {df \in UNION {[1..n -> OpenOnlyRows] : n \in 1..MaxStamp} : Increasing(df)}

\* the risk_factor_id a caller passes: 0, or an id the table can come to
\* hold
RiskFactorIds == 0..2

\* pd.to_datetime(...).dt.strftime('%Y-%m-%d'): the day a timestamp lies in
\* (two timestamps a day)
DayOf(timestamp) == (timestamp + 1) \div 2

\* float(close_val)
Float(close) ==
    CASE close = "100" -> "100.0"
      [] close = "101" -> "101.0"
      [] OTHER -> close

\* the committed database
TsDb == [risk_factors |-> risk_factors, timeseries_data |-> timeseries_data]

\* a call of add_timeseries_data is under way
TsRunning == tsret.op = "add_timeseries_data" /\ tsret.status = "running"

\* lines 152-170: the validation of add_risk_factor
ValidRiskFactor(symbol, asset_class, data_source, frequency) ==
    /\ symbol # ""
    /\ asset_class # ""
    /\ LowerCase(asset_class) \in VALID_ASSET_CLASSES
    /\ data_source # ""
    /\ LowerCase(frequency) \in VALID_FREQUENCIES

\* lines 176-180: SELECT risk_factor_id FROM risk_factors WHERE symbol = ?
\* AND asset_class = ? AND data_source = ?
ExistingRiskFactors(db, symbol, asset_class, data_source) ==
    {r \in db.risk_factors :
        /\ r.symbol = symbol
        /\ r.asset_class = asset_class
        /\ r.data_source = data_source}

\* what add_risk_factor returned or raised, with the key it was called for
RiskFactorRet(status, value, symbol, asset_class, data_source) ==
    [op |-> "add_risk_factor", status |-> status, value |-> value,
     symbol |-> symbol, asset_class |-> asset_class, data_source |-> data_source]

\* variant: the INSERT runs without the SELECT before it, on a table
\* without the UNIQUE constraint
add_risk_factor_insert(symbol, asset_class, data_source, frequency) ==
    /\ ~TsRunning
    /\ clock < MaxTsClock
    /\ clock' = clock + 1
    /\ IF ~ValidRiskFactor(symbol, asset_class, data_source, frequency)
       THEN /\ tsret' = RiskFactorRet("ValidationError", NULL, symbol,
                                      asset_class, data_source)
            /\ UNCHANGED risk_factors
       ELSE /\ risk_factors' = risk_factors \cup
                    {[risk_factor_id |-> Cardinality(risk_factors) + 1,
                      symbol |-> symbol, asset_class |-> asset_class,
                      data_source |-> data_source, start_date |-> NULL,
                      end_date |-> NULL, last_updated |-> clock']}
            /\ tsret' = RiskFactorRet("ok", Cardinality(risk_factors) + 1,
                                      symbol, asset_class, data_source)
    /\ UNCHANGED <<timeseries_data, tscall>>

\* lines 151-203: add_risk_factor validates its arguments, returns the id
\* of the row that has the key, or inserts a row (AUTOINCREMENT; no row is
\* ever deleted), commits and returns cursor.lastrowid
add_risk_factor(symbol, asset_class, data_source, frequency) ==
    /\ ~TsRunning
    /\ clock < MaxTsClock
    /\ clock' = clock + 1
    /\ IF ~ValidRiskFactor(symbol, asset_class, data_source, frequency)
       THEN /\ tsret' = RiskFactorRet("ValidationError", NULL, symbol,
                                      asset_class, data_source)
            /\ UNCHANGED risk_factors
       ELSE LET existing == ExistingRiskFactors(TsDb, symbol, asset_class,
                                               data_source)
            IN IF existing # {}
               THEN /\ tsret' = RiskFactorRet("ok",
                            (CHOOSE r \in existing : TRUE).risk_factor_id,
                            symbol, asset_class, data_source)
                    /\ UNCHANGED risk_factors
               ELSE /\ risk_factors' = risk_factors \cup
                            {[risk_factor_id |-> Cardinality(risk_factors) + 1,
                              symbol |-> symbol, asset_class |-> asset_class,
                              data_source |-> data_source, start_date |-> NULL,
                              end_date |-> NULL, last_updated |-> clock']}
                    /\ tsret' = RiskFactorRet("ok", Cardinality(risk_factors) + 1,
                                              symbol, asset_class, data_source)
    /\ UNCHANGED <<timeseries_data, tscall>>

\* lines 205-210: a statement or the commit raises sqlite3.Error; the
\* transaction is rolled back and DatabaseError raised
add_risk_factor_fails(symbol, asset_class, data_source, frequency) ==
    /\ ~TsRunning
    /\ clock < MaxTsClock
    /\ clock' = clock + 1
    /\ ValidRiskFactor(symbol, asset_class, data_source, frequency)
    /\ tsret' = RiskFactorRet("DatabaseError", NULL, symbol, asset_class,
                              data_source)
    /\ UNCHANGED <<risk_factors, timeseries_data, tscall>>

\* ---- TimeSeriesDB.add_timeseries_data ----
\* line 279: "if close_column not in df.columns"
HasCloseColumn(data) == \A k \in 1..Len(data) : data[k].close # NoColumn

\* variant: rows with a NaN close are not skipped
Records_all(risk_factor_id, data) ==
    [k \in 1..Len(data) |->
        [risk_factor_id |-> risk_factor_id, date |-> DayOf(data[k].timestamp),
         close |-> Float(data[k].close)]]

\* lines 272-314: the list of records: one per row whose close is not NaN,
\* in the order of the rows, with the date as a day and the close as a float
Records(risk_factor_id, data) ==
    LET kept == SelectSeq(data, LAMBDA row : row.close # NaN)
    IN [k \in 1..Len(kept) |->
            [risk_factor_id |-> risk_factor_id, date |-> DayOf(kept[k].timestamp),
             close |-> Float(kept[k].close)]]

\* variant: no check of "if not records"
ValidationMessage_norecords(risk_factor_id, data) ==
    CASE risk_factor_id <= 0 -> "risk_factor_id must be a positive integer"
      [] Len(data) = 0 -> "Data cannot be None or empty"
      [] ~HasCloseColumn(data) -> "Close column not found in DataFrame"
      [] OTHER -> ""

\* lines 245-253, 279-280, 316-317: the message of the ValidationError the
\* arguments raise, "" when they raise none
ValidationMessage(risk_factor_id, data) ==
    CASE risk_factor_id <= 0 -> "risk_factor_id must be a positive integer"
      [] Len(data) = 0 -> "Data cannot be None or empty"
      [] ~HasCloseColumn(data) -> "Close column not found in DataFrame"
      [] Len(Records(risk_factor_id, data)) = 0 ->
            "No valid records to insert (all close prices are NaN)"
      [] OTHER -> ""

\* variant: a plain INSERT into a table without UNIQUE(risk_factor_id, date)
InsertOrReplace_append(db, records) ==
    [db EXCEPT !.timeseries_data = @ \cup {records[k] : k \in 1..Len(records)}]

\* lines 320-328: executemany INSERT OR REPLACE: each record, in its turn,
\* replaces the row that has its (risk_factor_id, date)
RECURSIVE InsertOrReplace(_, _)
InsertOrReplace(db, records) ==
    IF records = <<>> THEN db
    ELSE LET record == Head(records)
         IN InsertOrReplace(
                [db EXCEPT !.timeseries_data =
                    {b \in @ : ~(/\ b.risk_factor_id = record.risk_factor_id
                                 /\ b.date = record.date)}
                    \cup {record}],
                Tail(records))

\* the dates of the stored bars of a risk factor
StoredDates(db, risk_factor_id) ==
    {b.date : b \in {b \in db.timeseries_data : b.risk_factor_id = risk_factor_id}}

\* SELECT MIN(date) and SELECT MAX(date): NULL over no row
MinDate(dates) ==
    IF dates = {} THEN NULL ELSE CHOOSE d \in dates : \A e \in dates : d <= e

MaxDateOf(dates) ==
    IF dates = {} THEN NULL ELSE CHOOSE d \in dates : \A e \in dates : d >= e

\* variant: start_date and end_date are taken from the records of the call
RefreshMetadata_batch(db, risk_factor_id, records, now) ==
    LET dates == {records[k].date : k \in 1..Len(records)}
    IN [db EXCEPT !.risk_factors =
        {IF r.risk_factor_id = risk_factor_id
         THEN [r EXCEPT !.start_date = MinDate(dates),
                        !.end_date = MaxDateOf(dates),
                        !.last_updated = now]
         ELSE r : r \in @}]

\* lines 333-342: UPDATE risk_factors SET start_date = (SELECT MIN(date)
\* ...), end_date = (SELECT MAX(date) ...), last_updated = ?
RefreshMetadata(db, risk_factor_id, records, now) ==
    LET dates == StoredDates(db, risk_factor_id)
    IN [db EXCEPT !.risk_factors =
        {IF r.risk_factor_id = risk_factor_id
         THEN [r EXCEPT !.start_date = MinDate(dates),
                        !.end_date = MaxDateOf(dates),
                        !.last_updated = now]
         ELSE r : r \in @}]

\* FOREIGN KEY (risk_factor_id) REFERENCES risk_factors, with PRAGMA
\* foreign_keys = ON
HasRiskFactor(db, risk_factor_id) ==
    \E r \in db.risk_factors : r.risk_factor_id = risk_factor_id

\* a record of the call overwrote a stored bar of another close
Replaces(db, records) ==
    \E k \in 1..Len(records) : \E b \in db.timeseries_data :
        /\ b.risk_factor_id = records[k].risk_factor_id
        /\ b.date = records[k].date
        /\ b.close # records[k].close

\* what add_timeseries_data returned or raised.  rows_in (the number of
\* rows of the DataFrame) and replaced are kept of the arguments, which
\* are dropped when the call ends
TimeseriesRet(status, message, value, replaced) ==
    [op |-> "add_timeseries_data", status |-> status, message |-> message,
     value |-> value, risk_factor_id |-> tscall.risk_factor_id,
     rows_in |-> Len(tscall.data), replaced |-> replaced]

\* line 212: the call begins
AddTimeseriesCall(risk_factor_id, data) ==
    /\ ~TsRunning
    /\ clock < MaxTsClock
    /\ clock' = clock + 1
    /\ tscall' = [risk_factor_id |-> risk_factor_id, data |-> data]
    /\ tsret' = [op |-> "add_timeseries_data", status |-> "running"]
    /\ UNCHANGED <<risk_factors, timeseries_data>>

\* lines 245-253, 279-280, 316-317: ValidationError is raised before any
\* statement runs
AddTimeseriesInvalid ==
    /\ TsRunning
    /\ ValidationMessage(tscall.risk_factor_id, tscall.data) # ""
    /\ tsret' = TimeseriesRet("ValidationError",
                    ValidationMessage(tscall.risk_factor_id, tscall.data),
                    NULL, FALSE)
    /\ tscall' = NoTsCall
    /\ UNCHANGED <<risk_factors, timeseries_data, clock>>

\* lines 319-345: the records are written and committed, the metadata of
\* the risk factor is refreshed and committed, len(records) is returned
AddTimeseriesStored ==
    /\ TsRunning
    /\ ValidationMessage(tscall.risk_factor_id, tscall.data) = ""
    /\ HasRiskFactor(TsDb, tscall.risk_factor_id)
    /\ LET records == Records(tscall.risk_factor_id, tscall.data)
           db == RefreshMetadata(InsertOrReplace(TsDb, records),
                                 tscall.risk_factor_id, records, clock)
       IN /\ risk_factors' = db.risk_factors
          /\ timeseries_data' = db.timeseries_data
          /\ tsret' = TimeseriesRet("ok", "", Len(records),
                                    Replaces(TsDb, records))
    /\ tscall' = NoTsCall
    /\ UNCHANGED clock

\* lines 347-349: an INSERT for a risk_factor_id that risk_factors does not
\* hold raises sqlite3.IntegrityError; rollback, DatabaseError
AddTimeseriesForeignKey ==
    /\ TsRunning
    /\ ValidationMessage(tscall.risk_factor_id, tscall.data) = ""
    /\ ~HasRiskFactor(TsDb, tscall.risk_factor_id)
    /\ tsret' = TimeseriesRet("DatabaseError", "Integrity constraint violation",
                              NULL, FALSE)
    /\ tscall' = NoTsCall
    /\ UNCHANGED <<risk_factors, timeseries_data, clock>>

\* lines 350-352: sqlite3.Error (storage failure) in executemany or in the
\* first commit: rollback, nothing is stored
AddTimeseriesWriteError ==
    /\ TsRunning
    /\ ValidationMessage(tscall.risk_factor_id, tscall.data) = ""
    /\ tsret' = TimeseriesRet("DatabaseError", "Failed to add timeseries data",
                              NULL, FALSE)
    /\ tscall' = NoTsCall
    /\ UNCHANGED <<risk_factors, timeseries_data, clock>>

\* lines 330-343, 350-352: sqlite3.Error in the UPDATE of the metadata or in
\* the second commit: the records were committed at line 330, the rollback
\* undoes the UPDATE only
AddTimeseriesMetadataError ==
    /\ TsRunning
    /\ ValidationMessage(tscall.risk_factor_id, tscall.data) = ""
    /\ HasRiskFactor(TsDb, tscall.risk_factor_id)
    /\ LET records == Records(tscall.risk_factor_id, tscall.data)
       IN /\ timeseries_data' = InsertOrReplace(TsDb, records).timeseries_data
          /\ tsret' = TimeseriesRet("DatabaseError", "Failed to add timeseries data",
                                    NULL, Replaces(TsDb, records))
    /\ tscall' = NoTsCall
    /\ UNCHANGED <<risk_factors, clock>>

\* what the calls of TimeSeriesDB leave alone
ixvars == <<indices, rows, pc, call, result, pre, repeat, reconDates>>

\* one user of the time-series store, one call at a time
NextTs ==
    \/ \E symbol \in TsSymbols, asset_class \in AssetClasses,
          data_source \in DataSources, frequency \in Frequencies :
        /\ add_risk_factor(symbol, asset_class, data_source, frequency)
        /\ UNCHANGED <<ixvars, uvars, rvars, fvars, lvars, cvars>>
    \/ \E symbol \in TsSymbols, asset_class \in AssetClasses,
          data_source \in DataSources, frequency \in Frequencies :
        /\ add_risk_factor_fails(symbol, asset_class, data_source, frequency)
        /\ UNCHANGED <<ixvars, uvars, rvars, fvars, lvars, cvars>>
    \/ \E risk_factor_id \in RiskFactorIds, data \in Frames :
        /\ AddTimeseriesCall(risk_factor_id, data)
        /\ UNCHANGED <<ixvars, uvars, rvars, fvars, lvars, cvars>>
    \/ AddTimeseriesInvalid /\ UNCHANGED <<ixvars, uvars, rvars, fvars, lvars, cvars>>
    \/ AddTimeseriesStored /\ UNCHANGED <<ixvars, uvars, rvars, fvars, lvars, cvars>>
    \/ AddTimeseriesForeignKey /\ UNCHANGED <<ixvars, uvars, rvars, fvars, lvars, cvars>>
    \/ AddTimeseriesWriteError /\ UNCHANGED <<ixvars, uvars, rvars, fvars, lvars, cvars>>
    \/ AddTimeseriesMetadataError /\ UNCHANGED <<ixvars, uvars, rvars, fvars, lvars, cvars>>

SpecTs == Init /\ [][NextTs]_vars

\* ---- EquityLoader.load_symbol (equity_loader.py) ----
\* What one pass of the retry loop (lines 160-234) can meet:
\*   "download_error"    ticker.history raises (network, rate limit)
\*   "empty"             the downloaded frame is empty: return 0
\*   "invalid_type"      the download is not a DataFrame: LoaderError
\*   "risk_factor_error" add_risk_factor raises DatabaseError or
\*                       ValidationError, re-raised as LoaderError
\*   "frame_error"       building df_clean raises (a column is missing)
\*   "timeseries_error"  add_timeseries_data raises DatabaseError or
\*                       ValidationError, re-raised as LoaderError
\*   "records"           the records are stored: return records_added
\* What the two database calls write is the subject of SpecTs; here they
\* are taken by their outcome.
GenericErrors == {"download_error", "frame_error"}

LoaderErrors == {"invalid_type", "risk_factor_error", "timeseries_error"}

Returns == {"empty", "records"}

\* variant: the loop makes one pass more than max_retries
InRange_inclusive(attempt, max_retries) == attempt <= max_retries

\* line 160: for attempt in range(max_retries)
InRange(attempt, max_retries) == attempt < max_retries

\* line 229: wait_time = 2 ** attempt
wait_time(attempt) == 2 ^ attempt

\* lines 150-157: the pauses of the rate limiting before the download
RatePauses(request_count) ==
    (IF request_count > 0 THEN <<"delay_seconds">> ELSE <<>>)
    \o (IF request_count > 0 /\ request_count % BatchSize = 0
        THEN <<"batch_pause">> ELSE <<>>)

\* lines 126-157: the call begins: the inputs are validated, a symbol that
\* has data is skipped when skip_existing is set, the rate-limiting pauses
\* are slept, and the retry loop is entered
load_symbol(max_retries, valid_inputs, skipped) ==
    /\ loader.phase \in {"idle", "done"}
    /\ loader.request_count + max_retries <= MaxRequests
    /\ loader' =
        IF ~valid_inputs
        THEN [NoLoad EXCEPT !.phase = "done", !.max_retries = max_retries,
                            !.outcome = "ValidationError",
                            !.request_count = loader.request_count]
        ELSE IF skipped
        THEN [NoLoad EXCEPT !.phase = "done", !.max_retries = max_retries,
                            !.outcome = "returned",
                            !.request_count = loader.request_count]
        ELSE [NoLoad EXCEPT !.phase = "loop", !.max_retries = max_retries,
                            !.pauses = RatePauses(loader.request_count),
                            !.request_count = loader.request_count]
    /\ UNCHANGED <<ixvars, clock, uvars, rvars, fvars, tvars, cvars>>

\* lines 160-234: one pass of the loop.  request_count is bumped once the
\* download has returned.  A return ends the call; a LoaderError is
\* re-raised by "except (LoaderError, ValidationError): raise"; any other
\* exception is kept in last_error, and the loop sleeps wait_time when
\* another pass is to come.
LoadAttempt(outcome) ==
    /\ loader.phase = "loop"
    /\ InRange(loader.attempt, loader.max_retries)
    /\ LET downloaded == [loader EXCEPT
                !.tries = Append(@, outcome),
                !.request_count = IF outcome = "download_error" THEN @ ELSE @ + 1]
       IN loader' =
            IF outcome \in Returns
            THEN [downloaded EXCEPT !.phase = "done", !.outcome = "returned"]
            ELSE IF outcome \in LoaderErrors
            THEN [downloaded EXCEPT !.phase = "done", !.outcome = "LoaderError"]
            ELSE [downloaded EXCEPT
                    !.last_error = outcome,
                    !.backoffs = IF loader.attempt < loader.max_retries - 1
                                 THEN Append(@, wait_time(loader.attempt))
                                 ELSE @,
                    !.attempt = @ + 1]
    /\ UNCHANGED <<ixvars, clock, uvars, rvars, fvars, tvars, cvars>>

\* lines 236-240: the loop is over: LoaderError when a pass failed,
\* return 0 when there was no pass
LoadLoopExit ==
    /\ loader.phase = "loop"
    /\ ~InRange(loader.attempt, loader.max_retries)
    /\ loader' = [loader EXCEPT
            !.phase = "done",
            !.outcome = IF loader.last_error # "" THEN "LoaderError"
                        ELSE "returned"]
    /\ UNCHANGED <<ixvars, clock, uvars, rvars, fvars, tvars, cvars>>

NextLoader ==
    \/ \E max_retries \in 0..MaxRetries, valid_inputs \in BOOLEAN, skipped \in BOOLEAN :
        load_symbol(max_retries, valid_inputs, skipped)
    \/ \E outcome \in GenericErrors \cup LoaderErrors \cup Returns :
        LoadAttempt(outcome)
    \/ LoadLoopExit

SpecLoader == Init /\ [][NextLoader]_vars

\* ---- UserConfig (user_config.py) ----
KeyPaths == {<<"test">>, <<"database">>, <<"database", "path">>}

\* default=None of get
None == {<<(<<>>), "None">>}

\* lines 143-150: get walks the keys from _config; KeyError or TypeError
\* gives the default
RECURSIVE Lookup(_, _, _)
Lookup(h, v, keys) ==
    IF keys = <<>> THEN Value(h, v, <<>>)
    ELSE IF v.kind = "dict" /\ Head(keys) \in DOMAIN h[v.of]
    THEN Lookup(h, h[v.of][Head(keys)], Tail(keys))
    ELSE None

get(h, keys) == Lookup(h, Ref("_config"), keys)

\* d[key] = v on the dict o
SetItem(h, o, key, v) ==
    [h EXCEPT ![o] = [k \in DOMAIN h[o] \cup {key} |->
                        IF k = key THEN v ELSE h[o][k]]]

\* dict.copy(): a new dict with the items of o; an item that refers to a
\* dict refers to the same dict in the copy
DictCopy(h, o, new) ==
    [x \in DOMAIN h \cup {new} |-> IF x = new THEN h[o] ELSE h[x]]

\* lines 115-134: set walks the keys but the last from _config, puts an
\* empty dict where a key is missing, assigns the value, and saves
ConfigSet(keys, s) ==
    /\ LET made == IF Len(keys) = 2 /\ keys[1] \notin DOMAIN heap["_config"]
                   THEN SetItem([x \in DOMAIN heap \cup {keys[1]} |->
                                    IF x = keys[1] THEN EmptyDict ELSE heap[x]],
                                "_config", keys[1], Ref(keys[1]))
                   ELSE heap
           target == IF Len(keys) = 2 THEN made["_config"][keys[1]].of
                     ELSE "_config"
       IN /\ heap' = SetItem(made, target, keys[Len(keys)], Str(s))
          /\ saved_yaml' = Value(heap', Ref("_config"), <<>>)
    /\ config_op' = "set"
    /\ UNCHANGED config_copy
    /\ UNCHANGED <<ixvars, clock, uvars, rvars, fvars, tvars, lvars>>

\* lines 106-113: return self._config.copy()
get_all ==
    /\ heap' = DictCopy(heap, "_config", "copy")
    /\ config_copy' = "copy"
    /\ config_op' = "get_all"
    /\ UNCHANGED saved_yaml
    /\ UNCHANGED <<ixvars, clock, uvars, rvars, fvars, tvars, lvars>>

\* the caller of get_all assigns to a key of the dict it was given
\* (test_user_config.py line 150: config_copy['test'] = 'modified')
ModifyCopy(key, s) ==
    /\ config_copy # NoCopy
    /\ heap' = SetItem(heap, config_copy, key, Str(s))
    /\ config_op' = "modify"
    /\ UNCHANGED <<config_copy, saved_yaml>>
    /\ UNCHANGED <<ixvars, clock, uvars, rvars, fvars, tvars, lvars>>

\* the caller assigns to a key of a dict held under a key of the dict it
\* was given: config_copy[key][nested] = s
ModifyNested(key, nested, s) ==
    /\ config_copy # NoCopy
    /\ key \in DOMAIN heap[config_copy]
    /\ heap[config_copy][key].kind = "dict"
    /\ heap' = SetItem(heap, heap[config_copy][key].of, nested, Str(s))
    /\ config_op' = "modify_nested"
    /\ UNCHANGED <<config_copy, saved_yaml>>
    /\ UNCHANGED <<ixvars, clock, uvars, rvars, fvars, tvars, lvars>>

NextConfig ==
    \/ \E keys \in {<<"test">>, <<"database", "path">>}, s \in Strings :
        ConfigSet(keys, s)
    \/ get_all
    \/ \E key \in TopKeys, s \in Strings : ModifyCopy(key, s)
    \/ \E key \in TopKeys, nested \in NestedKeys, s \in Strings :
        ModifyNested(key, nested, s)

SpecConfig == Init /\ [][NextConfig]_vars

\* ---- properties ----
Returned(p) == pc[p] = "idle" /\ result[p].status = "ok"

IsAscending(list) ==
    \A k1, k2 \in 1..Len(list) : k1 < k2 => list[k1] < list[k2]

ElementsOf(list) == {list[k] : k \in 1..Len(list)}

SameKey(c1, c2) == c1.index_id = c2.index_id /\ c1.symbol = c2.symbol

\* C1: after any sequence of reconciliations, every (index_id, symbol) has
\* at most one stored interval with end_date = NULL.
NoDoubleOpen ==
    \A c1, c2 \in rows :
        (SameKey(c1, c2) /\ c1.end_date = NULL /\ c2.end_date = NULL) => c1 = c2

\* a symbol that left the index and came back: one closed and one open row
NoDoubleOpenWitness ==
    \E c1, c2 \in rows :
        SameKey(c1, c2) /\ c1.end_date = NULL /\ c2.end_date # NULL

\* C2: when update_constituents has returned its summary for snapshot
\* symbols S, the symbols of get_current_constituents of that index are
\* exactly S: every added symbol is open, no removed symbol has an open row,
\* and the unchanged symbols make up the rest of the open rows.
PartitionCorrect ==
    \A p \in Procs : Returned(p) =>
        LET cur == SymbolsOf(get_current_constituents(Committed, call[p].index_code))
        IN /\ cur = call[p].new_symbols
           /\ ElementsOf(result[p].added_symbols) \subseteq cur
           /\ ElementsOf(result[p].removed_symbols) \cap cur = {}
           /\ Cardinality(cur) = result[p].added_count + result[p].unchanged_count

\* a call that re-added an earlier closed symbol and removed another one
PartitionCorrectWitness ==
    \E p \in Procs :
        /\ Returned(p)
        /\ result[p].removed_count > 0
        /\ \E c \in RowsOfIndex(Committed, call[p].index_code) :
            /\ c.symbol \in ElementsOf(result[p].added_symbols)
            /\ c.end_date # NULL
            /\ c.effective_date < call[p].effective_date

\* C3: a call of update_constituents that raises after its transaction
\* began leaves both tables exactly as they were when the call began.
Atomicity ==
    [][\A p \in Procs :
        (pc[p] # "idle" /\ result'[p].status = "database_error") =>
            (rows' = pre[p].rows /\ indices' = pre[p].indices)]_vars

\* a call that failed after statements of its transaction had written
AtomicityWitness ==
    \E p \in Procs :
        /\ pc[p] = "idle"
        /\ result[p].status = "database_error"
        /\ result[p].wrote
        /\ rows # {}

\* the days of the half-open interval [effective_date, end_date) of a row;
\* an open row lasts to the last day
DaysOf(c) ==
    IF c.end_date = NULL THEN c.effective_date..MaxDate
    ELSE c.effective_date..(c.end_date - 1)

\* C4: get_historical_constituents(index, d) returns exactly the rows of
\* that index whose half-open interval [effective_date, end_date) holds d:
\* a row closed at E is returned for effective_date..E-1 and not from E on.
AsOfSemantics ==
    \A index_code \in IndexCodes, d \in Dates :
        LET asof == get_historical_constituents(Committed, index_code, d)
        IN /\ asof \subseteq RowsOfIndex(Committed, index_code)
           /\ \A c \in RowsOfIndex(Committed, index_code) :
                c \in asof <=> d \in DaysOf(c)

\* a closed row returned for its first day and not for its end date
AsOfSemanticsWitness ==
    \E index_code \in IndexCodes : \E c \in RowsOfIndex(Committed, index_code) :
        /\ c.end_date # NULL
        /\ c.effective_date < c.end_date
        /\ c \in get_historical_constituents(Committed, index_code, c.effective_date)
        /\ c \notin get_historical_constituents(Committed, index_code, c.end_date)

\* C5: is_index_member(s, index, d) is true exactly when s is a symbol of
\* get_historical_constituents(index, d).
MembershipSymmetry ==
    \A s \in Symbols, index_code \in IndexCodes, d \in Dates :
        is_index_member(Committed, s, index_code, d)
            <=> s \in SymbolsOf(get_historical_constituents(Committed, index_code, d))

\* a symbol that is a member on one day and, after its row was closed, not
\* a member on its end date
MembershipSymmetryWitness ==
    \E index_code \in IndexCodes : \E c \in RowsOfIndex(Committed, index_code) :
        /\ c.end_date # NULL
        /\ is_index_member(Committed, c.symbol, index_code, c.effective_date)
        /\ ~is_index_member(Committed, c.symbol, index_code, c.end_date)

\* C6: for every (index_id, symbol) the intervals [effective_date, end_date)
\* of its rows do not overlap, whatever effective dates the calls were
\* given; get_historical_constituents returns no symbol twice for a date.
NonOverlap ==
    /\ \A c1, c2 \in rows :
        (SameKey(c1, c2) /\ c1 # c2) => DaysOf(c1) \cap DaysOf(c2) = {}
    /\ \A index_code \in IndexCodes, d \in Dates :
        \A c1, c2 \in get_historical_constituents(Committed, index_code, d) :
            c1.symbol = c2.symbol => c1 = c2

\* C7: every stored interval whose end_date is set has
\* end_date >= effective_date, whatever date the closing call was given.
MonotonicHistory ==
    \A c \in rows : c.end_date # NULL => c.end_date >= c.effective_date

\* C8: for d1 < d2 with no committed reconcile of the index whose
\* effective_date lies in (d1, d2], get_historical_constituents returns the
\* same rows for d1 and for d2.
AsOfStability ==
    \A index_code \in IndexCodes, d1, d2 \in Dates :
        (d1 < d2 /\ reconDates[index_code] \cap ((d1 + 1)..d2) = {}) =>
            get_historical_constituents(Committed, index_code, d1)
                = get_historical_constituents(Committed, index_code, d2)

\* two reconciles, then a gap between two dates with members on both
AsOfStabilityWitness ==
    \E index_code \in IndexCodes, d1, d2 \in Dates :
        /\ d1 < d2
        /\ reconDates[index_code] \cap ((d1 + 1)..d2) = {}
        /\ d1 \in reconDates[index_code]
        /\ Cardinality(reconDates[index_code]) >= 2
        /\ get_historical_constituents(Committed, index_code, d1) # {}
        /\ \E c \in RowsOfIndex(Committed, index_code) : c.end_date # NULL

\* the Index rows of db2 are those of db1 but for last_updated of index_id
OnlyLastUpdatedBumped(db1, db2, index_id) ==
    /\ {[i EXCEPT !.last_updated = NULL] : i \in db2.indices}
            = {[i EXCEPT !.last_updated = NULL] : i \in db1.indices}
    /\ \A i \in db1.indices : i.index_id # index_id => i \in db2.indices
    /\ \A i \in db2.indices : i.index_id = index_id => i \notin db1.indices

\* C9 as stated: the second of two successive calls with the same snapshot
\* and effective_date returns added_count = 0 and removed_count = 0 and
\* leaves the whole store (intervals and Index rows) unchanged.
IdempotenceWholeStore ==
    [][\A p \in Procs :
        (pc[p] = "txn" /\ repeat[p] /\ result'[p].status = "ok") =>
            /\ result'[p].added_count = 0
            /\ result'[p].removed_count = 0
            /\ rows' = pre[p].rows
            /\ indices' = pre[p].indices]_vars

\* C9 amended: the second call returns added_count = 0 and
\* removed_count = 0 and leaves every stored interval unchanged; of the
\* Index rows it changes only last_updated of the reconciled index.
IdempotenceIntervals ==
    [][\A p \in Procs :
        (pc[p] = "txn" /\ repeat[p] /\ result'[p].status = "ok") =>
            /\ result'[p].added_count = 0
            /\ result'[p].removed_count = 0
            /\ rows' = pre[p].rows
            /\ OnlyLastUpdatedBumped(pre[p], [indices |-> indices', rows |-> rows'],
                    call[p].index_id)]_vars

\* a repeated call of a non-empty snapshot has returned
IdempotenceWitness ==
    \E p \in Procs :
        /\ Returned(p)
        /\ repeat[p]
        /\ call[p].new_symbols # {}
        /\ result[p].added_count = 0
        /\ result[p].removed_count = 0
        /\ result[p].unchanged_count > 0

\* C10: with C the open symbols when the call began and N the snapshot
\* symbols, the summary a call returns reports added = N - C and removed = C - N, the
\* unchanged symbols are C \cap N, the three sets are pairwise disjoint,
\* added_count + unchanged_count = |N|, removed_count + unchanged_count =
\* |C|, and both symbol lists are in ascending order.
ChangeClassification ==
    [][\A p \in Procs : (pc[p] = "txn" /\ result'[p].status = "ok") =>
        LET C == SymbolsOf(get_current_constituents(pre[p], call[p].index_code))
            N == call[p].new_symbols
            r == result'[p]
            added == ElementsOf(r.added_symbols)
            removed == ElementsOf(r.removed_symbols)
            unchanged == call[p].unchanged_symbols
        IN /\ added = N \ C
           /\ removed = C \ N
           /\ unchanged = C \cap N
           /\ added \cap removed = {}
           /\ added \cap unchanged = {}
           /\ removed \cap unchanged = {}
           /\ r.added_count = Cardinality(added)
           /\ r.removed_count = Cardinality(removed)
           /\ r.unchanged_count = Cardinality(unchanged)
           /\ r.added_count + r.unchanged_count = Cardinality(N)
           /\ r.removed_count + r.unchanged_count = Cardinality(C)
           /\ IsAscending(r.added_symbols)
           /\ IsAscending(r.removed_symbols)]_vars

\* a call that reported two added symbols has returned
ChangeClassificationWitness ==
    \E p \in Procs :
        /\ Returned(p)
        /\ Len(result[p].added_symbols) >= 2
        /\ result[p].added_symbols[1] < result[p].added_symbols[2]

\* C11: update_constituents for an index code that has no Index row raises
\* the not-registered error, never begins its transaction, adds no Index
\* row (the code stays unregistered) and leaves every stored interval as it
\* was.
NotRegisteredFails ==
    [][\A p \in Procs :
        /\ (result'[p].status = "not_registered" /\ result'[p] # result[p]) =>
                /\ get_index_id(Committed, result'[p].index_code) = NULL
                /\ indices' = indices
                /\ rows' = rows
                /\ pc'[p] = "idle"
        /\ (pc[p] = "idle" /\ pc'[p] = "txn") =>
                get_index_id(Committed, call'[p].index_code) # NULL]_vars

\* the error was raised for "NOPE" while another index had intervals
NotRegisteredFailsWitness ==
    \E p \in Procs :
        /\ result[p].status = "not_registered"
        /\ result[p].index_code \in UnregisteredCodes
        /\ get_index_id(Committed, result[p].index_code) = NULL
        /\ indices # {}
        /\ \E c \in rows : c.end_date = NULL

\* C12: a reconcile whose snapshot holds no symbol is aborted with an error
\* instead of being applied: it does not close out the current members and
\* leaves the store as it was.
EmptySnapshotAborts ==
    [][\A p \in Procs :
        (pc[p] = "txn" /\ call[p].new_symbols = {} /\ call[p].current_symbols # {}) =>
            /\ result'[p].status # "ok"
            /\ rows' = rows
            /\ indices' = indices]_vars

\* C18: current, as_of, is_member and changes, asked about an index code
\* that has no Index row, surface the not-registered error instead of
\* returning a result.
QueryNotRegistered ==
    \A index_code \in QueryCodes :
        get_index_id(Committed, index_code) = NULL =>
            /\ current(Committed, index_code).status = "not_registered"
            /\ \A d \in Dates :
                    as_of(Committed, index_code, d).status = "not_registered"
            /\ \A s \in Symbols, d \in Dates :
                    is_member(Committed, s, index_code, d).status = "not_registered"
            /\ changes(Committed, index_code, NULL, NULL).status = "not_registered"

\* C19: a reconcile that returns its summary sets end_date to the call's
\* effective_date on the open row of every removed symbol of that index,
\* and changes no other stored row: every other row is kept as it was, and
\* the only rows that are new are the open rows of the added symbols.
RemovedClosedAtEffectiveDate ==
    [][\A p \in Procs : (pc[p] = "txn" /\ result'[p].status = "ok") =>
        LET removed == ElementsOf(result'[p].removed_symbols)
            Closing(c) == /\ c.index_id = call[p].index_id
                          /\ c.symbol \in removed
                          /\ c.end_date = NULL
        IN /\ \A s \in removed : \E c \in rows : c.symbol = s /\ Closing(c)
           /\ \A c \in rows :
                IF Closing(c)
                THEN /\ [c EXCEPT !.end_date = call[p].effective_date] \in rows'
                     /\ c \notin rows'
                ELSE c \in rows'
           /\ \A c \in rows' \ rows :
                \/ c.end_date = NULL /\ c.symbol \notin removed
                \/ /\ c.end_date = call[p].effective_date
                   /\ Closing([c EXCEPT !.end_date = NULL])
                   /\ [c EXCEPT !.end_date = NULL] \in rows]_vars

\* a call that closed one symbol's row at its effective date and left the
\* open row of another symbol alone
RemovedClosedWitness ==
    \E p \in Procs :
        /\ Returned(p)
        /\ result[p].removed_count > 0
        /\ result[p].unchanged_count > 0
        /\ \E c \in rows :
            /\ c.symbol \in ElementsOf(result[p].removed_symbols)
            /\ c.end_date = call[p].effective_date
            /\ c.effective_date < c.end_date
        /\ \E c \in rows : c.end_date = NULL /\ c.effective_date < call[p].effective_date

\* C20: when a reconcile that returns its summary adds a symbol that has
\* rows closed by earlier reconciles, it inserts one new open row for it
\* (effective_date = the call's effective_date, end_date = NULL, the
\* snapshot's descriptive fields) and keeps every old row of the symbol as
\* it was, still closed.
ReEntryNewInterval ==
    [][\A p \in Procs : (pc[p] = "txn" /\ result'[p].status = "ok") =>
        \A s \in ElementsOf(result'[p].added_symbols) :
            LET old == {c \in rows : c.index_id = call[p].index_id /\ c.symbol = s}
                now == {c \in rows' : c.index_id = call[p].index_id /\ c.symbol = s}
            IN old # {} =>
                /\ \A c \in old : c.end_date # NULL /\ c \in rows'
                /\ now \ old =
                    {[index_id |-> call[p].index_id, symbol |-> s,
                      effective_date |-> call[p].effective_date,
                      end_date |-> NULL,
                      company_name |-> call[p].added_rows[s].company_name,
                      extracted_at |-> call[p].added_rows[s].extracted_at,
                      data_source |-> call[p].added_rows[s].data_source]}]_vars

\* a symbol that came back: its closed row and, from a later effective
\* date, its new open row
ReEntryWitness ==
    \E p \in Procs :
        /\ Returned(p)
        /\ \E c1, c2 \in rows :
            /\ SameKey(c1, c2)
            /\ c1.symbol \in ElementsOf(result[p].added_symbols)
            /\ c1.end_date # NULL
            /\ c1.effective_date < c1.end_date
            /\ c2.end_date = NULL
            /\ c2.effective_date = call[p].effective_date
            /\ c1.end_date < c2.effective_date

\* the stored state of one index: its Index row and its intervals
IndexState(db, index_code) ==
    [index |-> {i \in db.indices : i.index_code = index_code},
     rows |-> RowsOfIndex(db, index_code)]

\* C13 as stated: when update_from_wikipedia has failed, in whichever step,
\* the Index row and the intervals of its index are what they were when the
\* call began.
FailedUpdateNoMutation ==
    upd.phase = "FAILED" =>
        IndexState(Committed, upd.index_code) = IndexState(opre, upd.index_code)

\* the Index row that register_index leaves for a code: a new row without
\* last_updated, or the old row with a later last_updated
Upserted(db1, db2, index_code) ==
    LET old == IndexState(db1, index_code).index
        new == IndexState(db2, index_code).index
    IN IF old = {}
       THEN new = {[index_id |-> Cardinality(db1.indices) + 1,
                    index_code |-> index_code, last_updated |-> NULL]}
       ELSE \E i \in old, t \in 1..clock :
                /\ t > i.last_updated
                /\ new = {[i EXCEPT !.last_updated = t]}

\* C13 amended: when update_from_wikipedia has failed, the intervals of its
\* index are what they were when the call began; its Index row is unchanged
\* too when the fetch or the register step failed, and when the reconcile
\* step failed it is the row the registry upsert committed before (created,
\* or refreshed with a new last_updated).
FailedUpdateKeepsIntervals ==
    upd.phase = "FAILED" =>
        /\ rows = opre.rows
        /\ upd.error \in {"FETCHING", "REGISTERING"} => indices = opre.indices
        /\ upd.error = "RECONCILING" =>
                /\ Upserted(opre, Committed, upd.index_code)
                /\ \A i \in indices :
                        i.index_code # upd.index_code => i \in opre.indices

\* the reconcile step failed after its transaction had written, for an
\* index that had members and had been registered before the call
FailedUpdateWitness ==
    /\ upd.phase = "FAILED"
    /\ upd.error = "RECONCILING"
    /\ \E p \in Procs : result[p].status = "database_error" /\ result[p].wrote
    /\ RowsOfIndex(Committed, upd.index_code) # {}
    /\ IndexState(opre, upd.index_code).index # {}

PhaseSteps ==
    {<<"IDLE", "FETCHING">>, <<"DONE", "FETCHING">>, <<"FAILED", "FETCHING">>,
     <<"FETCHING", "REGISTERING">>, <<"REGISTERING", "RECONCILING">>,
     <<"RECONCILING", "DONE">>,
     <<"FETCHING", "FAILED">>, <<"REGISTERING", "FAILED">>,
     <<"RECONCILING", "FAILED">>}

\* C15: a call of update_from_wikipedia goes through FETCHING, REGISTERING,
\* RECONCILING, DONE in that order; a step that fails takes it to FAILED
\* (IndexUpdaterError naming that step) and no step runs after that: the
\* registry is written in REGISTERING only (but for last_updated, which the
\* reconcile bumps), intervals in the step from RECONCILING to DONE only,
\* and a call that is over writes nothing.
PhaseOrder ==
    [][/\ upd'.phase # upd.phase => <<upd.phase, upd'.phase>> \in PhaseSteps
       /\ upd'.phase = "FETCHING" => upd.phase \in {"IDLE", "DONE", "FAILED"}
       /\ (upd'.phase = "FAILED" /\ upd.phase # "FAILED") => upd'.error = upd.phase
       /\ upd'.error # "none" => upd'.phase = "FAILED"
       /\ upd'.phase = "DONE" =>
            \E p \in Procs : result'[p].status = "ok" /\ pc'[p] = "idle"
       /\ rows' # rows => (upd.phase = "RECONCILING" /\ upd'.phase = "DONE")
       /\ indices' # indices =>
            \/ upd.phase = "REGISTERING" /\ upd'.phase = "RECONCILING"
            \/ upd.phase = "RECONCILING" /\ upd'.phase = "DONE"
       /\ (upd.phase \in {"DONE", "FAILED"} /\ upd'.phase = upd.phase) =>
            (indices' = indices /\ rows' = rows /\ pc' = pc)]_vars

\* a call that went through every step and reconciled members
PhaseOrderWitness ==
    /\ upd.phase = "DONE"
    /\ \E p \in Procs : Returned(p) /\ result[p].added_count > 0
    /\ RowsOfIndex(Committed, upd.index_code) # {}
    /\ opre # Committed

\* C16: when update_from_wikipedia failed in its fetch step (loading the
\* parser config, fetching or parsing), nothing of the store was written:
\* registry and intervals are what they were when the call began, and an
\* index that was not registered then is not registered now.
FetchFailureNoMutation ==
    (upd.phase = "FAILED" /\ upd.error = "FETCHING") =>
        /\ indices = opre.indices
        /\ rows = opre.rows
        /\ get_index_id(opre, upd.index_code) = NULL =>
                get_index_id(Committed, upd.index_code) = NULL

\* the fetch failed for an index not yet registered, in a store that holds
\* another index with members
FetchFailureWitness ==
    /\ upd.phase = "FAILED"
    /\ upd.error = "FETCHING"
    /\ get_index_id(Committed, upd.index_code) = NULL
    /\ \E c \in rows : c.end_date = NULL

\* C17: when update_all_configured_indices has returned, the map it returns
\* holds, for every configured index, under that index's code, either its
\* summary or its error; every index was attempted, whatever failed before.
BulkReportsPerCode ==
    bulk.state = "returned" =>
        \A config_file \in ConfigFiles :
            /\ ConfigCode[config_file] \in DOMAIN bulk.results
            /\ bulk.results[ConfigCode[config_file]].status \in {"ok", "failed"}

\* the database a reconcile leaves when all its statements are committed
PostCall(db, c, now) ==
    BumpLastUpdated(InsertAll(ClosedOut(db, c), c, c.added_symbols),
                    c.index_id, now)

OpenSymbols(db, index_id) ==
    {c.symbol : c \in {r \in db.rows : r.index_id = index_id /\ r.end_date = NULL}}

\* C14: a query that runs while a reconcile is in its transaction reads
\* either the complete state from before the call or the complete state
\* after it.  It never reads a state where some of the removed symbols are
\* closed and others still open, nor one where intervals of the added
\* symbols exist and last_updated of the index is still the old one; and
\* what the commit publishes is the complete post-call state.
ReaderIsolation ==
    [][\A p \in Procs :
        /\ (InTxn(p) /\ seen.status = "none" /\ seen'.status = "read") =>
            LET obs == seen'.db
                post == PostCall(pre[p], call[p], clock)
                stillOpen == call[p].removed_symbols
                                \cap OpenSymbols(obs, call[p].index_id)
                inserted == call[p].added_symbols
                                \cap OpenSymbols(obs, call[p].index_id)
            IN /\ obs \in {pre[p], post}
               /\ stillOpen \in {{}, call[p].removed_symbols}
               /\ inserted # {} => obs.indices = post.indices
        /\ (pc[p] = "committing" /\ result'[p].status = "ok") =>
            [indices |-> indices', rows |-> rows']
                = PostCall(pre[p], call[p], clock)]_vars

\* a query has read the old state while the transaction had inserted an
\* added symbol and had another one left to insert
ReaderIsolationWitness ==
    \E p \in Procs :
        /\ pc[p] = "inserting"
        /\ seen.status = "read"
        /\ seen.db = pre[p]
        /\ txn[p].view.rows # rows
        /\ txn[p].left # {}
        /\ \E c \in txn[p].view.rows : c.end_date = NULL /\ c \notin rows

\* C22: no two stored intervals ever share (index_id, symbol,
\* effective_date); a reconcile whose INSERT would store such a duplicate
\* (a symbol closed and added again at the same effective_date) fails with
\* DatabaseError and leaves both tables as they were, and a retried
\* reconcile inserts nothing.
UniqueIntervals ==
    [][/\ \A c1, c2 \in rows' :
            (SameKey(c1, c2) /\ c1.effective_date = c2.effective_date) => c1 = c2
       /\ \A p \in Procs :
            /\ (pc[p] = "txn" /\ Conflicts(Committed, call[p]) # {}) =>
                /\ result'[p].status = "database_error"
                /\ rows' = rows
                /\ indices' = indices
            /\ (pc[p] = "txn" /\ repeat[p] /\ result'[p].status = "ok") =>
                rows' = rows]_vars

\* a reconcile has failed on the UNIQUE constraint: its symbol has a row
\* closed at the effective date of the call
UniqueIntervalsWitness ==
    \E p \in Procs :
        /\ pc[p] = "idle"
        /\ result[p].status = "database_error"
        /\ result[p].cause = "IntegrityError"
        /\ \E c \in rows : c.end_date # NULL /\ c.effective_date = c.end_date

\* C25: a reconcile that returns its summary sets last_updated of its index
\* to the time of the call, later than the value it had, also when nothing
\* is added and nothing removed; a reconcile that fails leaves every Index
\* row as it was.
LastUpdatedBumped ==
    [][\A p \in Procs :
        pc[p] = "txn" =>
            /\ result'[p].status = "ok" =>
                /\ \A i \in indices' :
                        i.index_id = call[p].index_id => i.last_updated = clock
                /\ \A i \in indices :
                        i.index_id = call[p].index_id => i.last_updated < clock
                /\ \E i \in indices' : i.index_id = call[p].index_id
            /\ result'[p].status = "database_error" => indices' = indices]_vars

\* a reconcile that added nothing and removed nothing has returned and
\* last_updated of its index is the time of that call
LastUpdatedBumpedWitness ==
    \E p \in Procs :
        /\ Returned(p)
        /\ result[p].added_count = 0
        /\ result[p].removed_count = 0
        /\ \E i \in indices :
                /\ i.index_code = call[p].index_code
                /\ i.last_updated = clock
                /\ clock > 1

EventsOf(df, c, change_type) ==
    {k \in 1..Len(df) : df[k].of = c /\ df[k].change_type = change_type}

\* C24: for every index and every window [start, end] (a bound that is not
\* given does not filter), get_index_changes returns exactly one 'added'
\* event per stored interval whose effective_date lies in the window, dated
\* by it, exactly one 'removed' event per stored interval whose end_date is
\* set and lies in the window, dated by it, and nothing else, in descending
\* order of date; an interval added and removed within the window has both.
ChangesComplete ==
    \A index_code \in ConfiguredCodes, start \in Dates \cup {NULL},
       end \in Dates \cup {NULL} :
        LET df == changes(Committed, index_code, start, end).value
            InWindow(d) == /\ (start # NULL => d >= start)
                           /\ (end # NULL => d <= end)
            stored == RowsOfIndex(Committed, index_code)
        IN /\ \A c \in stored :
                /\ Cardinality(EventsOf(df, c, "added")) =
                        (IF InWindow(c.effective_date) THEN 1 ELSE 0)
                /\ Cardinality(EventsOf(df, c, "removed")) =
                        (IF c.end_date # NULL /\ InWindow(c.end_date) THEN 1 ELSE 0)
           /\ \A k \in 1..Len(df) :
                /\ df[k].of \in stored
                /\ df[k].symbol = df[k].of.symbol
                /\ df[k].change_type \in {"added", "removed"}
                /\ df[k].change_type = "added" => df[k].date = df[k].of.effective_date
                /\ df[k].change_type = "removed" => df[k].date = df[k].of.end_date
           /\ \A k1, k2 \in 1..Len(df) : k1 < k2 => df[k1].date >= df[k2].date

\* an interval was added and later removed inside the window of a query,
\* while another symbol stayed in the index: the query returns the 'removed'
\* event of that interval before its 'added' event
ChangesCompleteWitness ==
    \E index_code \in ConfiguredCodes, start \in Dates, end \in Dates :
        LET df == changes(Committed, index_code, start, end).value
        IN /\ \E c \in RowsOfIndex(Committed, index_code) :
                /\ c.end_date # NULL
                /\ c.effective_date < c.end_date
                /\ \E k1, k2 \in 1..Len(df) :
                    /\ k1 < k2
                    /\ df[k1].of = c /\ df[k1].change_type = "removed"
                    /\ df[k2].of = c /\ df[k2].change_type = "added"
           /\ Len(df) = 3

\* C21: a reconcile that returns its summary leaves the rows of every
\* unchanged symbol exactly as they were: its open row keeps effective_date,
\* end_date = NULL, company_name, extracted_at and data_source, whatever the
\* snapshot carries for the symbol, and stays its only open row.
UnchangedUntouched ==
    [][\A p \in Procs : (pc[p] = "txn" /\ result'[p].status = "ok") =>
        \A s \in call[p].unchanged_symbols :
            LET old == {c \in rows : c.index_id = call[p].index_id /\ c.symbol = s}
                new == {c \in rows' : c.index_id = call[p].index_id /\ c.symbol = s}
            IN /\ new = old
               /\ \E c \in old : c.end_date = NULL
               /\ \A c1, c2 \in new :
                    (c1.end_date = NULL /\ c2.end_date = NULL) => c1 = c2]_vars

\* a reconcile has returned whose snapshot named an unchanged symbol
\* differently, and was extracted later, than the open row of the symbol,
\* which an earlier call stored
UnchangedUntouchedWitness ==
    \E p \in Procs :
        /\ Returned(p)
        /\ result[p].unchanged_count > 0
        /\ \E c \in rows : \E k \in 1..Len(last_df) :
            /\ c.end_date = NULL
            /\ c.symbol = last_df[k].symbol
            /\ c.company_name # FirstRowOf(last_df, c.symbol).company_name
            /\ c.extracted_at < clock

\* the bars of a risk factor stored for a day
BarsOf(bars, risk_factor_id, date) ==
    {b \in bars : b.risk_factor_id = risk_factor_id /\ b.date = date}

\* C26: after any sequence of calls risk_factors holds at most one row per
\* (symbol, asset_class, data_source), and a call of add_risk_factor for a
\* key that has a row inserts nothing and, when it returns, returns the
\* risk_factor_id of that row.
RiskFactorIdempotent ==
    [][/\ \A r1, r2 \in risk_factors' :
            (/\ r1.symbol = r2.symbol
             /\ r1.asset_class = r2.asset_class
             /\ r1.data_source = r2.data_source) => r1 = r2
       /\ (tsret'.op = "add_risk_factor" /\ clock' # clock) =>
            LET existing == {r \in risk_factors :
                                /\ r.symbol = tsret'.symbol
                                /\ r.asset_class = tsret'.asset_class
                                /\ r.data_source = tsret'.data_source}
            IN existing # {} =>
                /\ risk_factors' = risk_factors
                /\ tsret'.status = "ok" =>
                    \E r \in existing : tsret'.value = r.risk_factor_id]_vars

\* add_risk_factor has returned the id of a row that an earlier call
\* inserted, while the table holds the row of another key too
RiskFactorIdempotentWitness ==
    /\ tsret.op = "add_risk_factor"
    /\ tsret.status = "ok"
    /\ Cardinality(risk_factors) = 2
    /\ \E r \in risk_factors :
        /\ r.symbol = tsret.symbol
        /\ r.asset_class = tsret.asset_class
        /\ r.data_source = tsret.data_source
        /\ r.risk_factor_id = tsret.value
        /\ r.last_updated < clock

\* C27: after any sequence of calls timeseries_data holds at most one row
\* per (risk_factor_id, date), and after a call that returns, the row of
\* every day the call has a bar for carries the close of the last row of
\* the DataFrame for that day, whatever was stored for it before.
UpsertByKey ==
    [][/\ \A b1, b2 \in timeseries_data' :
            (b1.risk_factor_id = b2.risk_factor_id /\ b1.date = b2.date) => b1 = b2
       /\ (TsRunning /\ tsret'.status = "ok") =>
            LET data == tscall.data
                given == {k \in 1..Len(data) : data[k].close # NaN}
            IN \A k \in given :
                LET day == DayOf(data[k].timestamp)
                    last == CHOOSE j \in given :
                                /\ DayOf(data[j].timestamp) = day
                                /\ \A i \in given :
                                    DayOf(data[i].timestamp) = day => i <= j
                IN BarsOf(timeseries_data', tscall.risk_factor_id, day) =
                    {[risk_factor_id |-> tscall.risk_factor_id, date |-> day,
                      close |-> Float(data[last].close)]}]_vars

\* a call has returned that wrote a bar over a stored bar of the same
\* risk factor and day with another close
UpsertByKeyWitness ==
    /\ tsret.op = "add_timeseries_data"
    /\ tsret.status = "ok"
    /\ tsret.replaced
    /\ \E b \in timeseries_data : b.risk_factor_id = tsret.risk_factor_id

\* C28: a call of add_timeseries_data with a risk_factor_id <= 0, an empty
\* DataFrame, a DataFrame without a close column or one whose close prices
\* are all NaN raises ValidationError, and a call that raises
\* ValidationError leaves timeseries_data and risk_factors as they were.
InvalidInputRejected ==
    [][TsRunning =>
        LET data == tscall.data
            invalid == \/ tscall.risk_factor_id <= 0
                       \/ Len(data) = 0
                       \/ \E k \in 1..Len(data) : data[k].close = NoColumn
                       \/ \A k \in 1..Len(data) : data[k].close = NaN
        IN /\ invalid => tsret'.status = "ValidationError"
           /\ tsret'.status = "ValidationError" =>
                /\ timeseries_data' = timeseries_data
                /\ risk_factors' = risk_factors]_vars

\* a DataFrame of NaN closes was rejected for a risk factor that has
\* stored bars and refreshed metadata
InvalidInputRejectedWitness ==
    /\ tsret.op = "add_timeseries_data"
    /\ tsret.status = "ValidationError"
    /\ tsret.message = "No valid records to insert (all close prices are NaN)"
    /\ tsret.rows_in > 0
    /\ \E b \in timeseries_data : b.risk_factor_id = tsret.risk_factor_id
    /\ \E r \in risk_factors :
        r.risk_factor_id = tsret.risk_factor_id /\ r.start_date # NULL

\* C29: a call of add_timeseries_data that returns has written a bar for
\* the day of every row whose close is not NaN, has left the bars of every
\* other day and of every other risk factor as they were, and returns the
\* number of rows whose close is not NaN.
SkipsNaN ==
    [][(TsRunning /\ tsret'.status = "ok") =>
        LET data == tscall.data
            given == {k \in 1..Len(data) : data[k].close # NaN}
            days == {DayOf(data[k].timestamp) : k \in given}
        IN /\ tsret'.value = Cardinality(given)
           /\ \A day \in days :
                BarsOf(timeseries_data', tscall.risk_factor_id, day) # {}
           /\ \A b \in timeseries_data' : b.close # NaN
           /\ \A b \in timeseries_data \cup timeseries_data' :
                (b.risk_factor_id # tscall.risk_factor_id \/ b.date \notin days)
                    => (b \in timeseries_data /\ b \in timeseries_data')]_vars

\* a call has returned a number smaller than the number of rows of its
\* DataFrame: it skipped a row
SkipsNaNWitness ==
    /\ tsret.op = "add_timeseries_data"
    /\ tsret.status = "ok"
    /\ tsret.value > 0
    /\ tsret.value < tsret.rows_in

\* C30: when add_timeseries_data has returned, the risk factor of the call
\* has stored bars, its start_date is the earliest and its end_date the
\* latest of their dates, and its last_updated is the time of the call,
\* whatever calls went before.
MetadataRefreshed ==
    (tsret.op = "add_timeseries_data" /\ tsret.status = "ok") =>
        \E r \in risk_factors :
            LET dates == {b.date : b \in
                            {b \in timeseries_data :
                                b.risk_factor_id = tsret.risk_factor_id}}
            IN /\ r.risk_factor_id = tsret.risk_factor_id
               /\ r.start_date \in dates
               /\ r.end_date \in dates
               /\ \A d \in dates : r.start_date <= d /\ d <= r.end_date
               /\ r.last_updated # NULL
               /\ r.last_updated = clock

\* a call with a single row has returned for a risk factor that has bars
\* of two days: one of them is of an earlier call
MetadataRefreshedWitness ==
    /\ tsret.op = "add_timeseries_data"
    /\ tsret.status = "ok"
    /\ tsret.rows_in = 1
    /\ \E r \in risk_factors :
        /\ r.risk_factor_id = tsret.risk_factor_id
        /\ r.start_date < r.end_date

ForwardDatesKeepOrder ==
    /\ NonOverlap
    /\ MonotonicHistory

\* a symbol was closed on the day it was added and added again later: its
\* two rows, the first one empty, under three reconciles of rising dates
ForwardDatesWitness ==
    \E c1, c2 \in rows :
        /\ SameKey(c1, c2)
        /\ c1.end_date = c1.effective_date
        /\ c2.end_date = NULL
        /\ c2.effective_date > c1.end_date

\* C37: on a date that is on or after the effective_date of every reconcile
\* applied to an index so far, as_of returns the symbols current returns.
AsOfLatestIsCurrent ==
    \A index_code \in QueryCodes, d \in Dates :
        (\A e \in reconDates[index_code] : e <= d) =>
            SymbolsOf(as_of(Committed, index_code, d).value)
                = SymbolsOf(current(Committed, index_code).value)

\* two reconciles of different dates were applied, the index has a closed
\* row and an open row of different symbols, and nothing is in flight
AsOfLatestIsCurrentWitness ==
    /\ AllIdle
    /\ \E index_code \in IndexCodes :
        /\ Cardinality(reconDates[index_code]) >= 2
        /\ \E c1, c2 \in RowsOfIndex(Committed, index_code) :
            /\ c1.end_date # NULL
            /\ c2.end_date = NULL
            /\ c1.symbol # c2.symbol
            /\ c1.end_date > c1.effective_date

\* C38: a row whose end_date equals its effective_date is selected by as_of
\* on no date and makes is_member true on no date (is_member is true only
\* through another row of the symbol), while changes lists an 'added' and a
\* 'removed' record of that row.
EmptyIntervalNeverMember ==
    \A index_code \in IndexCodes :
      LET listed == ElementsOf(changes(Committed, index_code, NULL, NULL).value)
      IN
        \A c \in RowsOfIndex(Committed, index_code) :
            c.end_date = c.effective_date =>
                /\ \A d \in Dates :
                    /\ c \notin as_of(Committed, index_code, d).value
                    /\ is_member(Committed, c.symbol, index_code, d).value =>
                        \E o \in RowsOfIndex(Committed, index_code) :
                            /\ o # c
                            /\ o.symbol = c.symbol
                            /\ o.effective_date <= d
                            /\ (o.end_date = NULL \/ o.end_date > d)
                /\ \A change_type \in {"added", "removed"} :
                    \E e \in listed :
                        /\ e.of = c
                        /\ e.change_type = change_type
                        /\ e.symbol = c.symbol
                        /\ e.date = c.effective_date

\* the only row of a symbol was closed on the day it was opened
EmptyIntervalWitness ==
    \E index_code \in IndexCodes :
        \E c \in RowsOfIndex(Committed, index_code) :
            /\ c.end_date = c.effective_date
            /\ \A o \in RowsOfIndex(Committed, index_code) :
                o.symbol = c.symbol => o = c

\* C36: a call of update_constituents whose read of the open rows was
\* followed by the commit of another call before its own transaction ran
\* (the store is no longer the one it read) still leaves, when it commits,
\* at most one open row per (index_id, symbol), and the open symbols of its
\* index are the symbols of its snapshot.
InterleavedLastWriterWins ==
    [][\A p \in Procs :
        (/\ pc[p] = "txn"
         /\ pre[p].rows # rows
         /\ pc'[p] = "idle"
         /\ result'[p].status = "ok") =>
            /\ \A c1, c2 \in rows' :
                (SameKey(c1, c2) /\ c1.end_date = NULL /\ c2.end_date = NULL)
                    => c1 = c2
            /\ OpenSymbols([indices |-> indices', rows |-> rows'],
                           call[p].index_id) = call[p].new_symbols]_vars

\* C31: load_symbol makes at most max_retries download attempts.  Only an
\* attempt that failed with a generic exception is followed by another
\* one, after a sleep of 2^attempt seconds (attempt counted from 0) when an
\* attempt remains; an attempt that raised LoaderError is the last one and
\* the call raises LoaderError; a ValidationError of the inputs is raised
\* before any attempt; and a call whose attempts all failed raises
\* LoaderError, after max_retries attempts when all failures were generic.
BoundedRetries ==
    LET tries == loader.tries
        failed == {k \in 1..Len(tries) : tries[k] \notin Returns}
        generic == {k \in 1..Len(tries) : tries[k] \in GenericErrors}
    IN /\ Len(tries) <= loader.max_retries
       /\ \A k \in 1..(Len(tries) - 1) : tries[k] \in GenericErrors
       /\ Len(loader.backoffs) =
            Cardinality({k \in generic : k < loader.max_retries})
       /\ \A k \in 1..Len(loader.backoffs) : loader.backoffs[k] = 2 ^ (k - 1)
       /\ loader.outcome = "ValidationError" => tries = <<>>
       /\ loader.phase = "done" /\ tries # <<>> =>
            /\ tries[Len(tries)] \in LoaderErrors => loader.outcome = "LoaderError"
            /\ failed = 1..Len(tries) => loader.outcome = "LoaderError"
            /\ generic = 1..Len(tries) => Len(tries) = loader.max_retries
            /\ loader.outcome = "LoaderError" => failed = 1..Len(tries)

\* a call with max_retries = 3 raised LoaderError after three attempts that
\* failed with a generic exception, having slept 1 and 2 seconds
BoundedRetriesWitness ==
    /\ loader.phase = "done"
    /\ loader.outcome = "LoaderError"
    /\ loader.max_retries = 3
    /\ Len(loader.tries) = 3
    /\ \A k \in 1..3 : loader.tries[k] \in GenericErrors
    /\ loader.backoffs = <<1, 2>>

\* C32: an assignment to the dict get_all returned, at one of its keys or
\* at a key of a dict nested under one of its keys, changes the value get
\* returns for no key of the configuration.
GetAllReturnsCopy ==
    [][config_op' \in {"modify", "modify_nested"} =>
        \A keys \in KeyPaths : get(heap', keys) = get(heap, keys)]_vars

====
